---- MODULE Spec2Model ----
(***************************************************************************)
(* Model of simple_electrum_client.                                        *)
(*                                                                         *)
(* Part I  (Spec)      : raw_client::Client, the handle over a plaintext   *)
(*                       or TLS socket shared by its clones: connect,      *)
(*                       clone, try_send_str, recv_str, try_recv_str, the  *)
(*                       peer and the network.  Socket operations succeed  *)
(*                       in this specification (no transport faults).      *)
(* Part II (SpecParse) : electrum::response, the classifier try_parse,     *)
(*                       ResponseBatch::from_str and parse_str_response,   *)
(*                       applied to payloads and indexes drawn from        *)
(*                       bounded sets.                                     *)
(***************************************************************************)
EXTENDS Integers, Sequences, FiniteSets, TLC

(***************************************************************************)
(* Bounds of the model.                                                    *)
(***************************************************************************)
\* number of lines the peer sends
MaxLines == 2
\* longest peer line, newline excluded
MaxLineLen == 1
\* largest request id of the index and of the payloads (ids are 0..MaxId)
MaxId == 1
\* longest JSON array handed to the batch parser
MaxBatch == 2
\* number of calls (send / recv / try_recv) the threads make in total
MaxCalls == 2
\* capacity of the BufReader a read allocates (8192 in std, scaled down)
BufCap == 3

(***************************************************************************)
(* Bytes, lines and frames.                                                *)
(***************************************************************************)
\* the EOL byte, b'\n'
NL == 10

Threads == {1, 2}
NoThread == 0

\* the k-th line of the peer with n payload bytes: its bytes are unique to it
PeerLine(k, n) == [i \in 1..(n + 1) |-> IF i = n + 1 THEN NL ELSE 100 * k + i]

\* the request strings the callers send
Payloads == {<<65>>, <<66, 67>>}

Kinds == {"Tcp", "Ssl"}

\* position of the first newline of s, 0 when there is none
RECURSIVE FirstNL(_, _)
FirstNL(s, i) ==
    IF i > Len(s) THEN 0
    ELSE IF s[i] = NL THEN i
    ELSE FirstNL(s, i + 1)

Min(a, b) == IF a < b THEN a ELSE b

IsPrefix(s, t) == Len(s) <= Len(t) /\ SubSeq(t, 1, Len(s)) = s

VARIABLES
    conn,       \* conn[t]: the Client value thread t holds
    sock,       \* whether the transport connection exists
    lock,       \* holder of the Mutex around the stream, NoThread when free
    inflight,   \* bytes the peer has written that have not reached the socket
    rcvbuf,     \* bytes pending in the socket's receive buffer
    wire,       \* bytes the client has written to the socket
    pc,         \* pc[t]: position of thread t inside its current call
    op,         \* op[t]: the call thread t is in
    arg,        \* arg[t]: the request string of a send
    line,       \* line[t]: `response`, the String read_line appends to
    ret,        \* ret[t]: result of the last call of thread t
    sentLines,  \* history: the lines the peer sent, in order
    returned,   \* history: the strings reads returned, in order
    sendlog,    \* history: the payloads of the sends, in the order they began writing
    ncalls,     \* number of calls made so far
    raw,        \* Part II: the payload handed to the classifier
    index,      \* Part II: the caller's id -> Request index
    call,       \* Part II: the function applied
    out,        \* Part II: its result
    client,     \* Part III: client[t], the Client value thread t holds
    sockets     \* Part III: the transport connections made so far, in order

ioVars == <<conn, sock, lock, inflight, rcvbuf, wire, pc, op, arg, line, ret,
            sentLines, returned, sendlog, ncalls>>
parseVars == <<raw, index, call, out>>
lifeVars == <<client, sockets>>
vars == <<conn, sock, lock, inflight, rcvbuf, wire, pc, op, arg, line, ret,
          sentLines, returned, sendlog, ncalls, raw, index, call, out,
          client, sockets>>

(***************************************************************************)
(* Part I: raw_client                                                      *)
(***************************************************************************)
\* Client::None
ClientNone == [kind |-> "None", stream |-> FALSE]

\* Client::new_tcp / Client::new_ssl: configured, stream: None
NewClient(k) == [kind |-> k, stream |-> FALSE]

NoRet == [tag |-> "none", val |-> <<>>]
OkUnit == [tag |-> "Ok", val |-> <<>>]
OkNone == [tag |-> "OkNone", val |-> <<>>]
OkLine(s) == [tag |-> "OkLine", val |-> s]
Err(e) == [tag |-> e, val |-> <<>>]
\* a panic of the calling thread: unwrap() on Err(e), expect(e) on None
Panic(e) == [tag |-> "Panic(" \o e \o ")", val |-> <<>>]

\* TcpClient::send / SslClient::send: the bytes of one call
FrameNoNewline(request) == request
Frame(request) == request \o <<NL>>

\* stream.lock(): the Mutex is free
LockAlwaysFree == TRUE
LockFree == lock = NoThread

\* BufReader::fill_buf: one read of the socket into the reader's buffer
ChunkLen(pending) == Min(Len(pending), BufCap)

\* nothing is handed to the classifier in Part I
NoRaw == [kind |-> "none"]
NoOut == [tag |-> "none"]
IoIdle ==
    /\ raw = NoRaw /\ index = <<>> /\ call = "none" /\ out = NoOut

\* no handle and no transport connection of Part III exists in Parts I and II
LifeIdle ==
    /\ client = [t \in Threads |-> [kind |-> "None"]]
    /\ sockets = <<>>

IoInit ==
    /\ \E k \in Kinds : conn = [t \in Threads |-> IF t = 1 THEN NewClient(k) ELSE ClientNone]
    /\ sock = FALSE
    /\ lock = NoThread
    /\ inflight = <<>>
    /\ rcvbuf = <<>>
    /\ wire = <<>>
    /\ pc = [t \in Threads |-> "idle"]
    /\ op = [t \in Threads |-> "none"]
    /\ arg = [t \in Threads |-> <<>>]
    /\ line = [t \in Threads |-> <<>>]
    /\ ret = [t \in Threads |-> NoRet]
    /\ sentLines = <<>>
    /\ returned = <<>>
    /\ sendlog = <<>>
    /\ ncalls = 0
    /\ IoIdle
    /\ LifeIdle

\* Client::try_connect on a configured handle without a stream: the transport
\* connection is made and the handle takes Some(Arc<Mutex<stream>>)
TryConnect(t) ==
    /\ pc[t] = "idle"
    /\ conn[t].kind # "None"
    /\ ~conn[t].stream
    /\ ~sock
    /\ sock' = TRUE
    /\ conn' = [conn EXCEPT ![t].stream = TRUE]
    /\ ret' = [ret EXCEPT ![t] = OkUnit]
    /\ UNCHANGED <<lock, inflight, rcvbuf, wire, pc, op, arg, line,
                   sentLines, returned, sendlog, ncalls>>
    /\ UNCHANGED parseVars
    /\ UNCHANGED lifeVars

\* Clone for Client: thread u receives a clone of thread t's handle; the
\* Option<Arc<..>> is cloned, so both hold the same stream
Clone(t, u) ==
    /\ t # u
    /\ pc[t] = "idle" /\ pc[u] = "idle"
    /\ conn[t].stream
    /\ conn[u] = ClientNone
    /\ conn' = [conn EXCEPT ![u] = conn[t]]
    /\ UNCHANGED <<sock, lock, inflight, rcvbuf, wire, pc, op, arg, line, ret,
                   sentLines, returned, sendlog, ncalls>>
    /\ UNCHANGED parseVars
    /\ UNCHANGED lifeVars

\* entry of try_send_str / recv_str / try_recv_str: the match on self and on
\* c.stream, before the lock is asked for
Enter(t, o, a) ==
    /\ pc[t] = "idle"
    /\ ncalls < MaxCalls
    /\ ncalls' = ncalls + 1
    /\ op' = [op EXCEPT ![t] = o]
    /\ IF conn[t].kind = "None"
       THEN /\ ret' = [ret EXCEPT ![t] = Err("NotConfigured")]
            /\ UNCHANGED <<pc, arg>>
       ELSE IF ~conn[t].stream
       THEN /\ ret' = [ret EXCEPT ![t] = Err("NotConnected")]
            /\ UNCHANGED <<pc, arg>>
       ELSE /\ ret' = [ret EXCEPT ![t] = NoRet]
            /\ arg' = [arg EXCEPT ![t] = a]
            /\ pc' = [pc EXCEPT ![t] = "lock"]
    /\ UNCHANGED <<conn, sock, lock, inflight, rcvbuf, wire, line,
                   sentLines, returned, sendlog>>
    /\ UNCHANGED parseVars
    /\ UNCHANGED lifeVars

TrySendStr(t) == \E p \in Payloads : Enter(t, "try_send_str", p)
RecvStr(t) == Enter(t, "recv_str", <<>>)
TryRecvStr(t) == Enter(t, "try_recv_str", <<>>)

\* stream.lock(): waits until the Mutex is free, then holds it
Lock(t) ==
    /\ pc[t] = "lock"
    /\ LockFree
    /\ lock' = t
    /\ pc' = [pc EXCEPT ![t] = IF op[t] = "try_send_str" THEN "write" ELSE "peek"]
    /\ UNCHANGED <<conn, sock, inflight, rcvbuf, wire, op, arg, line, ret,
                   sentLines, returned, sendlog, ncalls>>
    /\ UNCHANGED parseVars
    /\ UNCHANGED lifeVars

\* send: stream.write_all(request.as_bytes())
SendPayload(t) ==
    /\ pc[t] = "write"
    /\ wire' = wire \o arg[t]
    /\ sendlog' = Append(sendlog, arg[t])
    /\ pc' = [pc EXCEPT ![t] = "newline"]
    /\ UNCHANGED <<conn, sock, lock, inflight, rcvbuf, op, arg, line, ret,
                   sentLines, returned, ncalls>>
    /\ UNCHANGED parseVars
    /\ UNCHANGED lifeVars

\* send: stream.write_all(&[10])
SendNewline(t) ==
    /\ pc[t] = "newline"
    /\ wire' = wire \o SubSeq(Frame(arg[t]), Len(arg[t]) + 1, Len(Frame(arg[t])))
    /\ pc' = [pc EXCEPT ![t] = "flush"]
    /\ UNCHANGED <<conn, sock, lock, inflight, rcvbuf, op, arg, line, ret,
                   sentLines, returned, sendlog, ncalls>>
    /\ UNCHANGED parseVars
    /\ UNCHANGED lifeVars

\* send returning while its MutexGuard stays alive
SendFlushKeepsLock(t) ==
    /\ pc[t] = "flush"
    /\ ret' = [ret EXCEPT ![t] = OkUnit]
    /\ pc' = [pc EXCEPT ![t] = "idle"]
    /\ arg' = [arg EXCEPT ![t] = <<>>]
    /\ UNCHANGED <<conn, sock, lock, inflight, rcvbuf, wire, op, line,
                   sentLines, returned, sendlog, ncalls>>
    /\ UNCHANGED parseVars
    /\ UNCHANGED lifeVars

\* send: stream.flush(), Ok(()); the MutexGuard is dropped on return
SendFlush(t) ==
    /\ pc[t] = "flush"
    /\ lock' = IF lock = t THEN NoThread ELSE lock
    /\ ret' = [ret EXCEPT ![t] = OkUnit]
    /\ pc' = [pc EXCEPT ![t] = "idle"]
    /\ arg' = [arg EXCEPT ![t] = <<>>]
    /\ UNCHANGED <<conn, sock, inflight, rcvbuf, wire, op, line,
                   sentLines, returned, sendlog, ncalls>>
    /\ UNCHANGED parseVars
    /\ UNCHANGED lifeVars

\* raw_read, first half: set_nonblocking(true), peek, set_nonblocking(false),
\* then the test `blocking || peek.is_some()`
Peek(t) ==
    /\ pc[t] = "peek"
    /\ IF op[t] = "recv_str" \/ rcvbuf # <<>>
       THEN /\ line' = [line EXCEPT ![t] = <<>>]
            /\ pc' = [pc EXCEPT ![t] = "read_line"]
            /\ UNCHANGED <<lock, ret>>
       ELSE /\ ret' = [ret EXCEPT ![t] = OkNone]
            /\ lock' = IF lock = t THEN NoThread ELSE lock
            /\ pc' = [pc EXCEPT ![t] = "idle"]
            /\ UNCHANGED line
    /\ UNCHANGED <<conn, sock, inflight, rcvbuf, wire, op, arg,
                   sentLines, returned, sendlog, ncalls>>
    /\ UNCHANGED parseVars
    /\ UNCHANGED lifeVars

\* a line read that leaves on the socket the bytes of the read in which it
\* found the newline, as a peek does
ReadLineKeepsBytes(t) ==
    /\ pc[t] = "read_line"
    /\ rcvbuf # <<>>
    /\ LET n == ChunkLen(rcvbuf)
           chunk == SubSeq(rcvbuf, 1, n)
           i == FirstNL(chunk, 1)
       IN IF i = 0
          THEN /\ line' = [line EXCEPT ![t] = line[t] \o chunk]
               /\ rcvbuf' = SubSeq(rcvbuf, n + 1, Len(rcvbuf))
               /\ UNCHANGED <<pc, ret, lock, returned>>
          ELSE /\ line' = [line EXCEPT ![t] = <<>>]
               /\ ret' = [ret EXCEPT ![t] = OkLine(line[t] \o SubSeq(chunk, 1, i))]
               /\ returned' = Append(returned, line[t] \o SubSeq(chunk, 1, i))
               /\ lock' = IF lock = t THEN NoThread ELSE lock
               /\ pc' = [pc EXCEPT ![t] = "idle"]
               /\ UNCHANGED rcvbuf
    /\ UNCHANGED <<conn, sock, inflight, wire, op, arg, sentLines, sendlog, ncalls>>
    /\ UNCHANGED parseVars
    /\ UNCHANGED lifeVars

\* raw_read, second half: BufReader::new(stream).read_line(&mut response).
\* One step is one turn of read_until's loop: fill_buf reads what is pending
\* (at most the reader's capacity) into the reader's buffer, the bytes up to
\* and including the first newline are appended to `response`; when a newline
\* was found the call returns and the reader, with whatever its buffer still
\* holds, is dropped.
ReadLine(t) ==
    /\ pc[t] = "read_line"
    /\ rcvbuf # <<>>
    /\ LET n == ChunkLen(rcvbuf)
           chunk == SubSeq(rcvbuf, 1, n)
           i == FirstNL(chunk, 1)
       IN /\ rcvbuf' = SubSeq(rcvbuf, n + 1, Len(rcvbuf))
          /\ IF i = 0
             THEN /\ line' = [line EXCEPT ![t] = line[t] \o chunk]
                  /\ UNCHANGED <<pc, ret, lock, returned>>
             ELSE /\ line' = [line EXCEPT ![t] = <<>>]
                  /\ ret' = [ret EXCEPT ![t] = OkLine(line[t] \o SubSeq(chunk, 1, i))]
                  /\ returned' = Append(returned, line[t] \o SubSeq(chunk, 1, i))
                  /\ lock' = IF lock = t THEN NoThread ELSE lock
                  /\ pc' = [pc EXCEPT ![t] = "idle"]
    /\ UNCHANGED <<conn, sock, inflight, wire, op, arg, sentLines, sendlog, ncalls>>
    /\ UNCHANGED parseVars
    /\ UNCHANGED lifeVars

\* the peer writes one more line
PeerSend ==
    /\ sock
    /\ Len(sentLines) < MaxLines
    /\ \E n \in 1..MaxLineLen :
          /\ inflight' = inflight \o PeerLine(Len(sentLines) + 1, n)
          /\ sentLines' = Append(sentLines, PeerLine(Len(sentLines) + 1, n))
    /\ UNCHANGED <<conn, sock, lock, rcvbuf, wire, pc, op, arg, line, ret,
                   returned, sendlog, ncalls>>
    /\ UNCHANGED parseVars
    /\ UNCHANGED lifeVars

\* the network delivers some of the bytes in flight to the socket
Deliver ==
    /\ inflight # <<>>
    /\ \E k \in 1..Len(inflight) :
          /\ rcvbuf' = rcvbuf \o SubSeq(inflight, 1, k)
          /\ inflight' = SubSeq(inflight, k + 1, Len(inflight))
    /\ UNCHANGED <<conn, sock, lock, wire, pc, op, arg, line, ret,
                   sentLines, returned, sendlog, ncalls>>
    /\ UNCHANGED parseVars
    /\ UNCHANGED lifeVars

IoNext ==
    \/ \E t \in Threads : TryConnect(t)
    \/ \E t \in Threads, u \in Threads : Clone(t, u)
    \/ \E t \in Threads : TrySendStr(t)
    \/ \E t \in Threads : RecvStr(t)
    \/ \E t \in Threads : TryRecvStr(t)
    \/ \E t \in Threads : Lock(t)
    \/ \E t \in Threads : SendPayload(t)
    \/ \E t \in Threads : SendNewline(t)
    \/ \E t \in Threads : SendFlush(t)
    \/ \E t \in Threads : Peek(t)
    \/ \E t \in Threads : ReadLine(t)
    \/ PeerSend
    \/ Deliver

Spec == IoInit /\ [][IoNext]_vars

(***************************************************************************)
(* Claims about Part I                                                     *)
(***************************************************************************)
\* the frames of the sends of log l, one after the other
RECURSIVE Flatten(_)
Flatten(l) ==
    IF l = <<>> THEN <<>>
    ELSE Head(l) \o <<NL>> \o Flatten(Tail(l))

\* C1: every string a read returned is exactly one complete line the peer
\* sent, and no peer line was returned to more than one read (never a
\* spliced, partial or duplicated line).
C1_ReadsReturnWholeDistinctLines ==
    /\ \A i \in 1..Len(returned) :
          \E k \in 1..Len(sentLines) : returned[i] = sentLines[k]
    /\ \A i \in 1..Len(returned), j \in 1..Len(returned) :
          i # j => returned[i] # returned[j]

\* C2: a read that returns a line consumes exactly that line from the socket:
\* when the socket holds the whole lines L1 L2 .. Ln as the line read starts,
\* the read returns L1 and leaves L2 .. Ln pending.
C2_ReadConsumesOneLine ==
    [][\A t \in Threads :
          (/\ pc[t] = "read_line"
           /\ line[t] = <<>>
           /\ pc'[t] = "idle"
           /\ rcvbuf # <<>>
           /\ rcvbuf[Len(rcvbuf)] = NL)
          => /\ ret'[t] = OkLine(SubSeq(rcvbuf, 1, FirstNL(rcvbuf, 1)))
             /\ rcvbuf' = SubSeq(rcvbuf, FirstNL(rcvbuf, 1) + 1, Len(rcvbuf))]_vars

C14_CallsGuardAndLock ==
    /\ [](\A t \in Threads :
             /\ pc[t] = "idle" => lock # t
             /\ lock = t => pc[t] \in {"write", "newline", "flush", "peek", "read_line"})
    /\ [][\A t \in Threads :
             /\ ((TrySendStr(t) \/ RecvStr(t) \/ TryRecvStr(t)) /\ ~conn[t].stream)
                   => /\ ret'[t] = IF conn[t].kind = "None"
                                   THEN Err("NotConfigured")
                                   ELSE Err("NotConnected")
                      /\ pc'[t] = "idle"
                      /\ UNCHANGED <<conn, sock, lock, inflight, rcvbuf, wire>>
             /\ Lock(t) => (lock = NoThread /\ lock' = t)
             /\ (pc[t] # "idle" /\ pc'[t] = "idle") => (lock = t /\ lock' = NoThread)]_vars

\* C14 witness: a call on Client::None has returned NotConfigured while a send
\* of the other thread holds the Mutex
C14_Witness ==
    \E t \in Threads, u \in Threads :
        /\ lock = t /\ pc[t] = "newline"
        /\ conn[u].kind = "None"
        /\ ret[u] = Err("NotConfigured")

\* C15: a clone is made without any transport connection being opened and
\* holds the stream of the original; the reads of all handles take their
\* bytes from the one socket, so no byte of the peer is returned to two reads
C15_CloneSharesTheSocket ==
    /\ [](\A i \in 1..Len(returned), j \in 1..Len(returned) :
             \A p \in 1..Len(returned[i]), q \in 1..Len(returned[j]) :
                 (returned[i][p] = returned[j][q] /\ returned[i][p] # NL)
                     => (i = j /\ p = q))
    /\ [][\A t \in Threads, u \in Threads :
             Clone(t, u)
                 => /\ conn'[u] = conn[t]
                    /\ UNCHANGED <<sock, lock, inflight, rcvbuf, wire>>]_vars

\* C15 witness: one handle has sent a request and the other handle has read a
\* line of the peer
C15_Witness ==
    \E t \in Threads, u \in Threads :
        /\ t # u
        /\ conn[t].stream /\ conn[u].stream
        /\ op[t] = "try_send_str" /\ ret[t] = OkUnit
        /\ op[u] = "recv_str" /\ ret[u].tag = "OkLine"
        /\ ret[u].val \in {sentLines[k] : k \in 1..Len(sentLines)}

(***************************************************************************)
(* Part II: electrum::method and electrum::response                        *)
(***************************************************************************)
\* enum Method
Methods ==
    {"Banner", "BlockHeader", "BlockHeaders", "TransactionBroadcast", "Donation",
     "EstimateFee", "Features", "HeadersSubscribe", "FeeHistogram", "ListPeers",
     "Ping", "RelayFee", "ScriptHashGetBalance", "ScriptHashGetHistory",
     "ScriptHashListUnspent", "ScriptHashSubscribe", "ScriptHashUnsubscribe",
     "TransactionGet", "TransactionGetMerkle", "TransactionFromPosition", "Version"}

\* #[serde(rename = ..)] of each Method variant
WireName(m) ==
    CASE m = "Banner" -> "server.banner"
      [] m = "BlockHeader" -> "blockchain.block.header"
      [] m = "BlockHeaders" -> "blockchain.block.headers"
      [] m = "TransactionBroadcast" -> "blockchain.transaction.broadcast"
      [] m = "Donation" -> "server.donation_address"
      [] m = "EstimateFee" -> "blockchain.estimatefee"
      [] m = "Features" -> "server.features"
      [] m = "HeadersSubscribe" -> "blockchain.headers.subscribe"
      [] m = "FeeHistogram" -> "mempool.get_fee_histogram"
      [] m = "ListPeers" -> "server.peers.subscribe"
      [] m = "Ping" -> "server.ping"
      [] m = "RelayFee" -> "blockchain.relayfee"
      [] m = "ScriptHashGetBalance" -> "blockchain.scripthash.get_balance"
      [] m = "ScriptHashGetHistory" -> "blockchain.scripthash.get_history"
      [] m = "ScriptHashListUnspent" -> "blockchain.scripthash.listunspent"
      [] m = "ScriptHashSubscribe" -> "blockchain.scripthash.subscribe"
      [] m = "ScriptHashUnsubscribe" -> "blockchain.scripthash.unsubscribe"
      [] m = "TransactionGet" -> "blockchain.transaction.get"
      [] m = "TransactionGetMerkle" -> "blockchain.transaction.get_merkle"
      [] m = "TransactionFromPosition" -> "blockchain.transaction.id_from_pos"
      [] m = "Version" -> "server.version"

\* Deserialize for Method: a JSON string that is the wire name of a variant
IsMethodName(s) == \E m \in Methods : WireName(m) = s
MethodOfName(s) == CHOOSE m \in Methods : WireName(m) = s

\* the Response variant try_parse builds for a request of method m
VariantOf(m) ==
    CASE m = "Ping" -> "Ping"
      [] m = "Banner" -> "Banner"
      [] m = "HeadersSubscribe" -> "HeaderNotif"
      [] m = "BlockHeader" -> "Header"
      [] m = "BlockHeaders" -> "Headers"
      [] m = "Version" -> "Version"
      [] m = "TransactionGet" -> "TxGet"
      [] m = "ScriptHashSubscribe" -> "SHSubscribe"
      [] m = "ScriptHashUnsubscribe" -> "SHUnsubscribe"
      [] m = "ScriptHashGetBalance" -> "SHGetBalance"
      [] m = "ScriptHashGetHistory" -> "SHGetHistory"
      [] m = "ScriptHashListUnspent" -> "SHListUnspent"
      [] m = "Features" -> "Features"
      [] m = "Donation" -> "Donation"
      [] m = "EstimateFee" -> "EstimateFee"
      [] m = "FeeHistogram" -> "FeeHistogram"
      [] m = "RelayFee" -> "RelayFee"
      [] m = "TransactionGetMerkle" -> "TxGetMerkle"
      [] m = "TransactionFromPosition" -> "TxFromposition"
      [] m = "TransactionBroadcast" -> "Broadcast"
      [] m = "ListPeers" -> "ListPeers"

\* the methods whose arm of try_parse's match is todo!()
TodoMethods == {"TransactionBroadcast", "ListPeers"}

(***************************************************************************)
(* A payload is one JSON object, kept as what serde can see of it:         *)
(*   id      the values of its "id" keys, in order: a value >= 0 is a      *)
(*           usize, -1 stands for any other JSON value (null, a string, a  *)
(*           negative number); a repeated key is a sequence of length 2    *)
(*   jsonrpc whether it has a "jsonrpc" string                             *)
(*   error   "absent", "uint_code" ({code: usize, message: string}) or     *)
(*           "other" (any other value: a negative code, a string, null)    *)
(*   method  "absent" or the string of its "method" field                  *)
(*   params  "absent", "headers" (an array of {height, hex} objects),      *)
(*           "status" ([scripthash, string or null]) or "other"            *)
(*   result  "absent" or the shape of its "result" value                   *)
(***************************************************************************)
Ids == 0..MaxId

IdFields ==
    {<<>>} \cup {<<i>> : i \in (-1)..MaxId}
           \cup {q \in Ids \X Ids : q[1] < q[2]}

ErrorFields == {"absent", "uint_code", "other"}

MethodFields ==
    {"absent", "bogus.method", "blockchain.headers.subscribe",
     "blockchain.scripthash.subscribe", "server.ping"}

ParamsFields == {"absent", "headers", "status", "other"}

ResultShapes ==
    {"absent", "null", "string", "txid", "bool", "number", "header", "headers",
     "version", "verbose_tx", "balance", "empty_list", "history", "unspent",
     "histogram", "features", "merkle", "txpos_merkle"}

Objects ==
    [id : IdFields, jsonrpc : BOOLEAN, error : ErrorFields, method : MethodFields,
     params : ParamsFields, result : ResultShapes]

\* a raw line: one JSON object, a JSON array of objects, or not JSON at all
RawObject(o) == [kind |-> "object", obj |-> o]
RawArray(a) == [kind |-> "array", elems |-> a]
RawGarbage == [kind |-> "garbage"]

\* results: Ok(Response) with the variant and the id it carries (-1 for a
\* notification), Err(Error), or the panic of todo!()
OkResponse(v, i) == [tag |-> "Ok", v |-> v, id |-> i]
ErrResult(e, i) == [tag |-> "Err", v |-> e, id |-> i]
Panicked == [tag |-> "Panic", v |-> "todo", id |-> -1]
OkBatch(l) == [tag |-> "OkBatch", list |-> l]

\* a field `id: usize` of a derived struct: the key is there once, as a usize
HasUsizeId(o) == Len(o.id) = 1 /\ o.id[1] >= 0

\* serde_json::from_str::<ErrorResponse>: {id: usize, error: ErrorResult}
ParsesErrorResponse(r) ==
    /\ r.kind = "object"
    /\ HasUsizeId(r.obj)
    /\ r.obj.error = "uint_code"

\* serde_json::from_str::<BatchHeaderNotif>: {method: Method, params: Vec<Header>}
ParsesBatchHeaderNotif(r) ==
    /\ r.kind = "object"
    /\ IsMethodName(r.obj.method)
    /\ r.obj.params = "headers"

\* serde_json::from_str::<SHNotification>:
\* {method: Method, params: (ScriptHash, Option<String>)}
ParsesSHNotification(r) ==
    /\ r.kind = "object"
    /\ IsMethodName(r.obj.method)
    /\ r.obj.params = "status"

\* serde_json::from_str::<RawResponse>: {jsonrpc: String, id: usize}
ParsesRawResponse(r) ==
    /\ r.kind = "object"
    /\ r.obj.jsonrpc
    /\ HasUsizeId(r.obj)

\* the shapes of `result` the response struct of method m decodes; a missing
\* key decodes into an Option field as None
OptionalString == {"absent", "null", "string", "txid"}
AnyString == {"string", "txid"}
Accepts(m) ==
    CASE m = "Ping" -> OptionalString
      [] m = "Banner" -> AnyString
      [] m = "HeadersSubscribe" -> {"header"}
      [] m = "BlockHeader" -> AnyString
      [] m = "BlockHeaders" -> {"headers"}
      [] m = "Version" -> {"version"}
      [] m = "TransactionGet" -> AnyString \cup {"verbose_tx"}
      [] m = "ScriptHashSubscribe" -> OptionalString
      [] m = "ScriptHashUnsubscribe" -> {"bool"}
      [] m = "ScriptHashGetBalance" -> {"balance"}
      [] m = "ScriptHashGetHistory" -> {"empty_list", "history", "unspent"}
      [] m = "ScriptHashListUnspent" -> {"empty_list", "unspent"}
      [] m = "Features" -> {"features"}
      [] m = "Donation" -> OptionalString
      [] m = "EstimateFee" -> {"number"}
      [] m = "FeeHistogram" -> {"empty_list", "histogram"}
      [] m = "RelayFee" -> {"number"}
      [] m = "TransactionGetMerkle" -> {"merkle"}
      [] m = "TransactionFromPosition" -> {"txid", "txpos_merkle"}
      [] OTHER -> {}

\* parse!(variant, type, raw): the whole line decoded as the response struct
\* of method m ({id: usize, result: ..}; for HeadersSubscribe the untagged
\* HeaderNotification, whose Batch arm is a BatchHeaderNotif)
ParseTyped(m, r) ==
    IF \/ HasUsizeId(r.obj) /\ r.obj.result \in Accepts(m)
       \/ m = "HeadersSubscribe" /\ ParsesBatchHeaderNotif(r)
    THEN OkResponse(VariantOf(m), r.obj.id[1])
    ELSE ErrResult("ResponseParsing", -1)

\* Response::try_parse with the two notification attempts before the error
\* attempt
TryParseNotifFirst(r, idx) ==
    IF ParsesBatchHeaderNotif(r) THEN OkResponse("BatchHeaderNotif", -1)
    ELSE IF ParsesSHNotification(r) THEN OkResponse("SHNotification", -1)
    ELSE IF ParsesErrorResponse(r) THEN OkResponse("Error", r.obj.id[1])
    ELSE IF ~ParsesRawResponse(r) THEN ErrResult("RawResponseParsing", -1)
    ELSE IF r.obj.id[1] \notin DOMAIN idx THEN ErrResult("ResponseId", r.obj.id[1])
    ELSE IF idx[r.obj.id[1]] \in TodoMethods THEN Panicked
    ELSE ParseTyped(idx[r.obj.id[1]], r)

\* Response::try_parse with `index.get(&rr.id)` falling back to a Ping request
\* when the id is not a key of the index
TryParseDefaultRequest(r, idx) ==
    IF ParsesErrorResponse(r) THEN OkResponse("Error", r.obj.id[1])
    ELSE IF ParsesBatchHeaderNotif(r) THEN OkResponse("BatchHeaderNotif", -1)
    ELSE IF ParsesSHNotification(r) THEN OkResponse("SHNotification", -1)
    ELSE IF ~ParsesRawResponse(r) THEN ErrResult("RawResponseParsing", -1)
    ELSE IF r.obj.id[1] \notin DOMAIN idx THEN ParseTyped("Ping", r)
    ELSE IF idx[r.obj.id[1]] \in TodoMethods THEN Panicked
    ELSE ParseTyped(idx[r.obj.id[1]], r)

\* Response::try_parse
TryParse(r, idx) ==
    IF ParsesErrorResponse(r) THEN OkResponse("Error", r.obj.id[1])
    ELSE IF ParsesBatchHeaderNotif(r) THEN OkResponse("BatchHeaderNotif", -1)
    ELSE IF ParsesSHNotification(r) THEN OkResponse("SHNotification", -1)
    ELSE IF ~ParsesRawResponse(r) THEN ErrResult("RawResponseParsing", -1)
    ELSE IF r.obj.id[1] \notin DOMAIN idx THEN ErrResult("ResponseId", r.obj.id[1])
    ELSE IF idx[r.obj.id[1]] \in TodoMethods THEN Panicked
    ELSE ParseTyped(idx[r.obj.id[1]], r)

\* serde_json::from_str::<Value> followed by serde_json::to_string: a Map
\* keeps the last value of a repeated key and each key is written once
ReSerialize(o) ==
    [o EXCEPT !.id = IF o.id = <<>> THEN <<>> ELSE <<o.id[Len(o.id)]>>]

\* the loop of ResponseBatch::from_str pushing each response in front of the
\* batch
RECURSIVE FromStrLoopReversed(_, _, _)
FromStrLoopReversed(elems, idx, batch) ==
    IF elems = <<>> THEN OkBatch(batch)
    ELSE LET x == TryParse(RawObject(ReSerialize(Head(elems))), idx)
         IN IF x.tag = "Ok"
            THEN FromStrLoopReversed(Tail(elems), idx, <<x>> \o batch)
            ELSE x

\* the loop of ResponseBatch::from_str: each element is serialized again and
\* classified, the first failure (`?`) ends the loop
RECURSIVE FromStrLoop(_, _, _)
FromStrLoop(elems, idx, batch) ==
    IF elems = <<>> THEN OkBatch(batch)
    ELSE LET x == TryParse(RawObject(ReSerialize(Head(elems))), idx)
         IN IF x.tag = "Ok"
            THEN FromStrLoop(Tail(elems), idx, Append(batch, x))
            ELSE x

\* ResponseBatch::from_str
FromStr(r, idx) ==
    IF r.kind = "array"
    THEN FromStrLoop(r.elems, idx, <<>>)
    ELSE ErrResult("BatchParsing", -1)

\* parse_str_response
ParseStrResponse(r, idx) ==
    LET b == FromStr(r, idx)
    IN IF b.tag = "OkBatch" THEN b
       ELSE IF b.tag = "Panic" THEN Panicked
       ELSE LET x == TryParse(r, idx)
            IN IF x.tag = "Ok" THEN OkBatch(<<x>>) ELSE x

(***************************************************************************)
(* The inputs of Part II                                                   *)
(***************************************************************************)
\* HashMap<usize, Request>, kept as id -> request.method: the empty index,
\* the indexes of one request, and the indexes that hold a request of the
\* same method under every id
Indexes ==
    {<<>>} \cup {[i \in {j} |-> m] : j \in Ids, m \in Methods}
           \cup {[i \in Ids |-> m] : m \in Methods}

\* the elements of the arrays: responses, error objects and a notification
Plain(ids, res) ==
    [id |-> ids, jsonrpc |-> TRUE, error |-> "absent", method |-> "absent",
     params |-> "absent", result |-> res]

ElemIds == {<<i>> : i \in Ids} \cup {<<0, MaxId>>}

BatchElems ==
    {Plain(i, res) : i \in ElemIds, res \in {"null", "bool"}}
    \cup {[Plain(i, "absent") EXCEPT !.error = "uint_code"] : i \in ElemIds}
    \cup {[Plain(<<>>, "absent") EXCEPT !.method = "blockchain.headers.subscribe",
                                        !.params = "headers"]}

\* the arrays of at most n elements
RECURSIVE ArraysOf(_)
ArraysOf(n) ==
    IF n = 0 THEN {<<>>}
    ELSE ArraysOf(n - 1)
         \cup {Append(a, e) : a \in {b \in ArraysOf(n - 1) : Len(b) = n - 1},
                              e \in BatchElems}

Lines ==
    {RawArray(a) : a \in ArraysOf(MaxBatch)}
    \cup {RawObject(o) : o \in BatchElems} \cup {RawGarbage}

\* the state of Part I while the classifier is exercised
IoQuiet ==
    /\ conn = [t \in Threads |-> ClientNone]
    /\ sock = FALSE
    /\ lock = NoThread
    /\ inflight = <<>> /\ rcvbuf = <<>> /\ wire = <<>>
    /\ pc = [t \in Threads |-> "idle"]
    /\ op = [t \in Threads |-> "none"]
    /\ arg = [t \in Threads |-> <<>>]
    /\ line = [t \in Threads |-> <<>>]
    /\ ret = [t \in Threads |-> NoRet]
    /\ sentLines = <<>> /\ returned = <<>> /\ sendlog = <<>>
    /\ ncalls = 0

ParseInit ==
    /\ IoQuiet
    /\ LifeIdle
    /\ index \in Indexes
    /\ raw = NoRaw
    /\ call = "none"
    /\ out = NoOut

\* Response::try_parse(raw, &index) on one JSON object
ApplyTryParse ==
    /\ call = "none"
    /\ \E o \in Objects :
          /\ raw' = RawObject(o)
          /\ out' = TryParse(RawObject(o), index)
    /\ call' = "try_parse"
    /\ UNCHANGED index
    /\ UNCHANGED ioVars
    /\ UNCHANGED lifeVars

\* ResponseBatch::from_str(raw, &index)
ApplyFromStr ==
    /\ call = "none"
    /\ \E r \in Lines :
          /\ raw' = r
          /\ out' = FromStr(r, index)
    /\ call' = "from_str"
    /\ UNCHANGED index
    /\ UNCHANGED ioVars
    /\ UNCHANGED lifeVars

\* parse_str_response(raw, &index)
ApplyParseStrResponse ==
    /\ call = "none"
    /\ \E r \in Lines :
          /\ raw' = r
          /\ out' = ParseStrResponse(r, index)
    /\ call' = "parse_str_response"
    /\ UNCHANGED index
    /\ UNCHANGED ioVars
    /\ UNCHANGED lifeVars

ParseNext ==
    \/ ApplyTryParse
    \/ ApplyFromStr
    \/ ApplyParseStrResponse

SpecParse == ParseInit /\ [][ParseNext]_vars

(***************************************************************************)
(* Claims about Part II                                                    *)
(***************************************************************************)
\* try_parse has returned for a payload that matches none of the error and
\* notification shapes
NoEarlierShape ==
    /\ call = "try_parse"
    /\ ~ParsesErrorResponse(raw)
    /\ ~ParsesBatchHeaderNotif(raw)
    /\ ~ParsesSHNotification(raw)

\* C4: try_parse on a payload that has an `error` field returns
\* Response::Error, whatever the index holds, and never a typed success
C4_ErrorFieldGivesError ==
    (call = "try_parse" /\ raw.obj.error # "absent")
        => (out.tag = "Ok" /\ out.v = "Error")

C6_TypedByIndexedMethod ==
    (/\ NoEarlierShape
     /\ ParsesRawResponse(raw)
     /\ raw.obj.id[1] \in DOMAIN index)
        => \/ out = OkResponse(VariantOf(index[raw.obj.id[1]]), raw.obj.id[1])
           \/ out = ErrResult("ResponseParsing", -1)

\* C7: try_parse, ResponseBatch::from_str and parse_str_response return Ok or
\* Err for every payload and every index, never a panic
C7_NeverPanics ==
    call # "none" => out.tag \in {"Ok", "OkBatch", "Err"}

\* C8: parse_str_response and ResponseBatch::from_str on an array of N
\* payloads that each classify successfully return exactly N Responses, the
\* i-th being the classification of the i-th element against the same index
C8_BatchIsElementwise ==
    (/\ call \in {"from_str", "parse_str_response"}
     /\ raw.kind = "array"
     /\ \A i \in 1..Len(raw.elems) :
           TryParse(RawObject(raw.elems[i]), index).tag = "Ok")
        => /\ out.tag = "OkBatch"
           /\ Len(out.list) = Len(raw.elems)
           /\ \A i \in 1..Len(raw.elems) :
                 out.list[i] = TryParse(RawObject(raw.elems[i]), index)

\* C8 witness: an array of MaxBatch elements is returned as MaxBatch
\* Responses, the first an error and the last a typed response
C8_Witness ==
    /\ call = "parse_str_response"
    /\ raw.kind = "array"
    /\ Len(raw.elems) = MaxBatch
    /\ out.tag = "OkBatch"
    /\ Len(out.list) = MaxBatch
    /\ out.list[1].v = "Error"
    /\ out.list[MaxBatch].v = "SHUnsubscribe"

\* C9: try_parse returns a batched header notification only for a payload
\* whose method is blockchain.headers.subscribe, and a scripthash
\* notification only for one whose method is blockchain.scripthash.subscribe
C9_NotificationMethodMatches ==
    (call = "try_parse" /\ out.tag = "Ok")
        => /\ out.v = "BatchHeaderNotif"
                => raw.obj.method = WireName("HeadersSubscribe")
           /\ out.v = "SHNotification"
                => raw.obj.method = WireName("ScriptHashSubscribe")

\* the results of try_parse that need the lookup of the id in the index
UsedIndex ==
    \/ out.tag = "Panic"
    \/ out.tag = "Err" /\ out.v \in {"ResponseId", "ResponseParsing"}
    \/ out.tag = "Ok" /\ out.v \notin {"Error", "BatchHeaderNotif", "SHNotification"}

\* C10: try_parse returns the result of the first of the shapes error,
\* batched header notification, scripthash notification that the payload
\* matches, and looks the id up in the index only when none of them matched
C10_FirstMatchingShapeWins ==
    call = "try_parse"
        => /\ ParsesErrorResponse(raw)
                => out = OkResponse("Error", raw.obj.id[1])
           /\ (~ParsesErrorResponse(raw) /\ ParsesBatchHeaderNotif(raw))
                => out = OkResponse("BatchHeaderNotif", -1)
           /\ (/\ ~ParsesErrorResponse(raw)
               /\ ~ParsesBatchHeaderNotif(raw)
               /\ ParsesSHNotification(raw))
                => out = OkResponse("SHNotification", -1)
           /\ UsedIndex => NoEarlierShape

\* C10 witness: a payload that is an error object, a batched header
\* notification and a response to a request of the index is returned as the
\* error
C10_Witness ==
    /\ call = "try_parse"
    /\ ParsesErrorResponse(raw)
    /\ ParsesBatchHeaderNotif(raw)
    /\ ParsesRawResponse(raw)
    /\ raw.obj.id[1] \in DOMAIN index
    /\ out = OkResponse("Error", raw.obj.id[1])

(***************************************************************************)
(* Part III (SpecLife): the life of a connection.  A handle is configured, *)
(* connected, cloned, given timeouts and closed; the peer accepts or       *)
(* refuses connections, writes the bytes of one line and closes.  Calls    *)
(* are one step each, except a line read, which holds the stream's Mutex   *)
(* while it waits for bytes.                                               *)
(***************************************************************************)
\* transport connections the peer accepts
MaxSocks == 2
\* calls the threads make in total
MaxOps == 3
\* longest timeout, in time units
MaxTimeout == 1

\* stream: None
NoStream == 0
\* read_timeout: None / write_timeout: None
NoTimeout == 0
\* Option<Duration>: None and Some(d)
Timeouts == 0..MaxTimeout
TimeoutFields == {"read_timeout", "write_timeout"}

\* Client::None
Unconfigured == [kind |-> "None"]

\* the servers a handle can name: one whose certificate verifies, one with a
\* self-signed certificate
Hosts == {"verified", "selfsigned"}
Ports == {50001, 50002}

\* Client::new_tcp(url, port) / Client::new_ssl(url, port) over
\* TcpClient::default / SslClient::default; only SslClient has the
\* verif_certificate flag
NewClientAt(k, h, p) ==
    IF k = "Tcp"
    THEN [kind |-> k, url |-> h, port |-> p, stream |-> NoStream,
          read_timeout |-> NoTimeout, write_timeout |-> NoTimeout]
    ELSE [kind |-> k, url |-> h, port |-> p, stream |-> NoStream,
          read_timeout |-> NoTimeout, write_timeout |-> NoTimeout,
          verif_certificate |-> TRUE]

\* a handle for the server whose certificate verifies
Configured(k) == NewClientAt(k, "verified", 50002)

\* the TLS handshake of handle c is refused for the server's certificate:
\* set_verify(SslVerifyMode::NONE) is called only when verif_certificate is
\* false
CertificateRefused(c) ==
    c.kind = "Ssl" /\ c.verif_certificate /\ c.url = "selfsigned"

\* Client::is_connected
IsConnected(c) == c.kind # "None" /\ c.stream # NoStream

\* a socket made by try_connect without the stored timeouts put on it
NewSocketWithoutTimeouts(c) ==
    [kind |-> c.kind, state |-> "open",
     read_timeout |-> NoTimeout, write_timeout |-> NoTimeout,
     holder |-> NoThread, pending |-> <<>>, sent |-> 0, eof |-> FALSE,
     nonblocking |-> FALSE, stuck |-> FALSE, poisoned |-> FALSE]

\* the socket try_connect has made for handle c: net::TcpStream::connect,
\* set_read_timeout(self.read_timeout), set_write_timeout(self.write_timeout).
\* A new socket is in blocking mode; `stuck` records that a set_nonblocking(false)
\* has failed on it
NewSocket(c) ==
    [kind |-> c.kind, state |-> "open",
     read_timeout |-> c.read_timeout, write_timeout |-> c.write_timeout,
     holder |-> NoThread, pending |-> <<>>, sent |-> 0, eof |-> FALSE,
     nonblocking |-> FALSE, stuck |-> FALSE, poisoned |-> FALSE]

\* a read of the socket returns 0 bytes: the peer has closed, or the socket
\* was shut down in both directions (SslStream::shutdown only sends
\* close_notify and leaves the TCP socket readable)
AtEof(sk) == sk.eof \/ (sk.kind = "Tcp" /\ sk.state = "shutdown")

\* `peek.is_some()`: TcpStream::peek is Ok(n) when bytes are pending and
\* Ok(0) at end of stream; SslStream::ssl_peek is Ok(n) only when bytes are
\* pending
PeekIsSome(sk) == sk.pending # <<>> \/ (sk.kind = "Tcp" /\ AtEof(sk))

\* a read of only what the peek has seen
ReadsLineIfPeeked(blocking, sk) == PeekIsSome(sk)

\* `blocking || peek.is_some()`: raw_read goes on to read_line
ReadsLine(blocking, sk) == blocking \/ PeekIsSome(sk)

\* the variables of Part I that Part III leaves alone
restVars == <<conn, sock, lock, inflight, rcvbuf, wire, arg,
              sentLines, returned, sendlog>>

LifeInit ==
    /\ IoQuiet
    /\ IoIdle
    /\ \E k \in Kinds :
          client = [t \in Threads |-> IF t = 1 THEN Configured(k) ELSE Unconfigured]
    /\ sockets = <<>>

\* thread t has made call o and got r
Returns(t, o, r) ==
    /\ op' = [op EXCEPT ![t] = o]
    /\ ret' = [ret EXCEPT ![t] = r]
    /\ ncalls' = ncalls + 1

\* thread t may start a call
MayCall(t) == pc[t] = "idle" /\ ncalls < MaxOps

\* Client::try_connect.  The transport connection is asked for first: the
\* peer refuses it (Err(TcpStream)) or accepts it, the stored timeouts are put
\* on the new socket, a TLS handshake can fail (Err(SslStream)) and does fail
\* when the server's certificate is refused; only then is
\* self.stream looked at, and a handle that already has a stream drops the
\* new socket and returns AlreadyConnected.
LifeTryConnect(t) ==
    /\ MayCall(t)
    /\ UNCHANGED <<pc, line>>
    /\ IF client[t].kind = "None"
       THEN /\ Returns(t, "try_connect", Err("NotConfigured"))
            /\ UNCHANGED lifeVars
       ELSE \E accepted \in BOOLEAN, handshake \in BOOLEAN :
               /\ accepted => Len(sockets) < MaxSocks
               /\ client[t].kind = "Tcp" => handshake
               /\ CertificateRefused(client[t]) => ~handshake
               /\ IF ~accepted
                  THEN /\ Returns(t, "try_connect", Err("TcpStream"))
                       /\ UNCHANGED lifeVars
                  ELSE IF ~handshake
                  THEN /\ Returns(t, "try_connect", Err("SslStream"))
                       /\ sockets' = Append(sockets,
                              [NewSocket(client[t]) EXCEPT !.state = "dropped"])
                       /\ UNCHANGED client
                  ELSE IF client[t].stream = NoStream
                  THEN /\ Returns(t, "try_connect", OkUnit)
                       /\ sockets' = Append(sockets, NewSocket(client[t]))
                       /\ client' = [client EXCEPT ![t].stream = Len(sockets) + 1]
                  ELSE /\ Returns(t, "try_connect", Err("AlreadyConnected"))
                       /\ sockets' = Append(sockets,
                              [NewSocket(client[t]) EXCEPT !.state = "dropped"])
                       /\ UNCHANGED client
    /\ UNCHANGED restVars
    /\ UNCHANGED parseVars

\* a close that waits for nothing and shuts the socket down under the holder
\* of the Mutex
LifeCloseShutsHeld(t) ==
    /\ MayCall(t)
    /\ UNCHANGED <<pc, line>>
    /\ IF client[t].kind = "None"
       THEN /\ Returns(t, "close", OkUnit)
            /\ UNCHANGED lifeVars
       ELSE IF client[t].stream = NoStream
       THEN /\ Returns(t, "close", Err("NotConnected"))
            /\ UNCHANGED lifeVars
       ELSE LET s == client[t].stream
            IN /\ client' = [client EXCEPT ![t].stream = NoStream]
               /\ sockets' = [sockets EXCEPT ![s].state = "shutdown"]
               /\ IF sockets[s].holder # NoThread
                  THEN Returns(t, "close", Err("Mutex"))
                  ELSE IF sockets[s].state = "open" /\ ~sockets[s].eof
                  THEN Returns(t, "close", OkUnit)
                  ELSE \E r \in {OkUnit, Err("ShutDown")} :
                          Returns(t, "close", r)
    /\ UNCHANGED restVars
    /\ UNCHANGED parseVars

\* a close that gives up the stream only when it has shut the socket down
LifeCloseKeepsStreamOnError(t) ==
    /\ MayCall(t)
    /\ UNCHANGED <<pc, line>>
    /\ IF client[t].kind = "None"
       THEN /\ Returns(t, "close", OkUnit)
            /\ UNCHANGED lifeVars
       ELSE IF client[t].stream = NoStream
       THEN /\ Returns(t, "close", Err("NotConnected"))
            /\ UNCHANGED lifeVars
       ELSE LET s == client[t].stream
            IN IF sockets[s].holder # NoThread
               THEN /\ Returns(t, "close", Err("Mutex"))
                    /\ UNCHANGED lifeVars
               ELSE /\ sockets' = [sockets EXCEPT ![s].state = "shutdown"]
                    /\ \E r \in {OkUnit, Err("ShutDown")} :
                          /\ (sockets[s].state = "open" /\ ~sockets[s].eof) => r = OkUnit
                          /\ Returns(t, "close", r)
                          /\ client' = IF r = OkUnit
                                       THEN [client EXCEPT ![t].stream = NoStream]
                                       ELSE client
    /\ UNCHANGED restVars
    /\ UNCHANGED parseVars

\* Client::close: Ok(()) on Client::None; otherwise self.stream.take(), then
\* try_lock (Err(Mutex) while a call of a clone holds the Mutex) and shutdown,
\* whose result on a socket the peer has closed or that was already shut down
\* depends on the platform
LifeClose(t) ==
    /\ MayCall(t)
    /\ UNCHANGED <<pc, line>>
    /\ IF client[t].kind = "None"
       THEN /\ Returns(t, "close", OkUnit)
            /\ UNCHANGED lifeVars
       ELSE IF client[t].stream = NoStream
       THEN /\ Returns(t, "close", Err("NotConnected"))
            /\ UNCHANGED lifeVars
       ELSE LET s == client[t].stream
            IN /\ client' = [client EXCEPT ![t].stream = NoStream]
               /\ IF sockets[s].holder # NoThread \/ sockets[s].poisoned
                  THEN /\ Returns(t, "close", Err("Mutex"))
                       /\ UNCHANGED sockets
                  ELSE /\ sockets' = [sockets EXCEPT ![s].state = "shutdown"]
                       /\ IF sockets[s].state = "open" /\ ~sockets[s].eof
                          THEN Returns(t, "close", OkUnit)
                          ELSE \E r \in {OkUnit, Err("ShutDown")} :
                                  Returns(t, "close", r)
    /\ UNCHANGED restVars
    /\ UNCHANGED parseVars

\* Clone for Client: thread u receives a clone of thread t's handle; the
\* Option<Arc<..>> is cloned, so both hold the same stream
LifeClone(t, u) ==
    /\ t # u
    /\ pc[t] = "idle" /\ pc[u] = "idle"
    /\ client[t].kind # "None"
    /\ client[u].kind = "None"
    /\ client' = [client EXCEPT ![u] = client[t]]
    /\ UNCHANGED <<sockets, pc, op, line, ret, ncalls>>
    /\ UNCHANGED restVars
    /\ UNCHANGED parseVars

\* the builders read_timeout / write_timeout building the handle anew, without
\* its stream
LifeTimeoutForgetsStream(t, w, d) ==
    /\ MayCall(t)
    /\ Returns(t, w, NoRet)
    /\ client' = IF client[t].kind = "None" THEN client
                 ELSE [client EXCEPT ![t][w] = d, ![t].stream = NoStream]
    /\ UNCHANGED <<sockets, pc, line>>
    /\ UNCHANGED restVars
    /\ UNCHANGED parseVars

\* Client::read_timeout / Client::write_timeout (builders): the value is
\* stored in the handle
LifeTimeout(t, w, d) ==
    /\ MayCall(t)
    /\ Returns(t, w, NoRet)
    /\ client' = IF client[t].kind = "None" THEN client
                 ELSE [client EXCEPT ![t][w] = d]
    /\ UNCHANGED <<sockets, pc, line>>
    /\ UNCHANGED restVars
    /\ UNCHANGED parseVars

\* a setter that puts the value on the socket without taking the Mutex
LifeSetTimeoutWithoutLock(t, w, d) ==
    /\ MayCall(t)
    /\ UNCHANGED <<pc, line>>
    /\ IF client[t].kind = "None"
       THEN /\ Returns(t, "set_" \o w, Err("NotConfigured"))
            /\ UNCHANGED lifeVars
       ELSE /\ Returns(t, "set_" \o w, OkUnit)
            /\ client' = [client EXCEPT ![t][w] = d]
            /\ IF client[t].stream = NoStream
               THEN UNCHANGED sockets
               ELSE sockets' = [sockets EXCEPT ![client[t].stream][w] = d]
    /\ UNCHANGED restVars
    /\ UNCHANGED parseVars

\* Client::set_read_timeout / Client::set_write_timeout: with a stream, the
\* Mutex is taken (Err(Mutex) when it is poisoned) and the value put on the
\* socket; then it is stored
LifeSetTimeout(t, w, d) ==
    /\ MayCall(t)
    /\ UNCHANGED <<pc, line>>
    /\ IF client[t].kind = "None"
       THEN /\ Returns(t, "set_" \o w, Err("NotConfigured"))
            /\ UNCHANGED lifeVars
       ELSE IF client[t].stream = NoStream
       THEN /\ Returns(t, "set_" \o w, OkUnit)
            /\ client' = [client EXCEPT ![t][w] = d]
            /\ UNCHANGED sockets
       ELSE /\ sockets[client[t].stream].holder = NoThread
            /\ IF sockets[client[t].stream].poisoned
               THEN /\ Returns(t, "set_" \o w, Err("Mutex"))
                    /\ UNCHANGED lifeVars
               ELSE /\ Returns(t, "set_" \o w, OkUnit)
                    /\ client' = [client EXCEPT ![t][w] = d]
                    /\ sockets' = [sockets EXCEPT ![client[t].stream][w] = d]
    /\ UNCHANGED restVars
    /\ UNCHANGED parseVars

\* Client::recv_str (o = "recv_str") and Client::try_recv_str, up to the test
\* `blocking || peek.is_some()` of raw_read: the match on self and on
\* c.stream, stream.lock() (Err(Mutex) when the Mutex is poisoned), the
\* non-blocking peek; read() ends in `.expect("blocking")`, a panic under the
\* MutexGuard should raw_read(stream, true) return None
LifeRead(t, o) ==
    /\ MayCall(t)
    /\ UNCHANGED client
    /\ IF client[t].kind = "None"
       THEN /\ Returns(t, o, Err("NotConfigured"))
            /\ UNCHANGED <<sockets, pc, line>>
       ELSE IF client[t].stream = NoStream
       THEN /\ Returns(t, o, Err("NotConnected"))
            /\ UNCHANGED <<sockets, pc, line>>
       ELSE LET s == client[t].stream
            IN /\ sockets[s].holder = NoThread
               /\ IF sockets[s].poisoned
                  THEN /\ Returns(t, o, Err("Mutex"))
                       /\ UNCHANGED <<sockets, pc, line>>
                  ELSE IF ReadsLine(o = "recv_str", sockets[s])
                  THEN /\ Returns(t, o, NoRet)
                       /\ sockets' = [sockets EXCEPT ![s].holder = t]
                       /\ pc' = [pc EXCEPT ![t] = "read_line"]
                       /\ line' = [line EXCEPT ![t] = <<>>]
                  ELSE IF o = "recv_str"
                  THEN /\ Returns(t, o, Panic("blocking"))
                       /\ sockets' = [sockets EXCEPT ![s].poisoned = TRUE]
                       /\ pc' = [pc EXCEPT ![t] = "panicked"]
                       /\ UNCHANGED line
                  ELSE /\ Returns(t, o, OkNone)
                       /\ UNCHANGED <<sockets, pc, line>>
    /\ UNCHANGED restVars
    /\ UNCHANGED parseVars

LifeRecvStr(t) == LifeRead(t, "recv_str")
LifeTryRecvStr(t) == LifeRead(t, "try_recv_str")

\* BufReader::new(stream).read_line(&mut response) with bytes pending: one
\* turn of read_until's loop, as ReadLine of Part I
LifeReadLine(t) ==
    /\ pc[t] = "read_line"
    /\ LET s == client[t].stream
           n == ChunkLen(sockets[s].pending)
           chunk == SubSeq(sockets[s].pending, 1, n)
           rest == SubSeq(sockets[s].pending, n + 1, Len(sockets[s].pending))
           i == FirstNL(chunk, 1)
       IN /\ sockets[s].pending # <<>>
          /\ IF i = 0
             THEN /\ line' = [line EXCEPT ![t] = line[t] \o chunk]
                  /\ sockets' = [sockets EXCEPT ![s].pending = rest]
                  /\ UNCHANGED <<pc, ret>>
             ELSE /\ line' = [line EXCEPT ![t] = <<>>]
                  /\ ret' = [ret EXCEPT ![t] = OkLine(line[t] \o SubSeq(chunk, 1, i))]
                  /\ sockets' = [sockets EXCEPT ![s].pending = rest,
                                                ![s].holder = NoThread]
                  /\ pc' = [pc EXCEPT ![t] = "idle"]
    /\ UNCHANGED <<client, op, ncalls>>
    /\ UNCHANGED restVars
    /\ UNCHANGED parseVars

\* read_line at the end of the stream: the read returns 0 bytes, read_line
\* returns Ok with what it has appended so far, raw_read returns
\* Ok(Some(response))
LifeReadEof(t) ==
    /\ pc[t] = "read_line"
    /\ LET s == client[t].stream
       IN /\ sockets[s].pending = <<>>
          /\ AtEof(sockets[s])
          /\ sockets' = [sockets EXCEPT ![s].holder = NoThread]
    /\ ret' = [ret EXCEPT ![t] = OkLine(line[t])]
    /\ line' = [line EXCEPT ![t] = <<>>]
    /\ pc' = [pc EXCEPT ![t] = "idle"]
    /\ UNCHANGED <<client, op, ncalls>>
    /\ UNCHANGED restVars
    /\ UNCHANGED parseVars

\* read_line with nothing pending and a read timeout on the socket: the read
\* fails with WouldBlock when the timeout elapses, map_err(Error::TcpStream)?
LifeReadTimedOut(t) ==
    /\ pc[t] = "read_line"
    /\ LET s == client[t].stream
       IN /\ sockets[s].pending = <<>>
          /\ ~AtEof(sockets[s])
          /\ sockets[s].read_timeout # NoTimeout
          /\ sockets' = [sockets EXCEPT ![s].holder = NoThread]
    /\ ret' = [ret EXCEPT ![t] = Err("TcpStream")]
    /\ line' = [line EXCEPT ![t] = <<>>]
    /\ pc' = [pc EXCEPT ![t] = "idle"]
    /\ UNCHANGED <<client, op, ncalls>>
    /\ UNCHANGED restVars
    /\ UNCHANGED parseVars

\* Client::try_send_str, in one step: stream.lock() fails on a poisoned
\* Mutex (Err(Mutex)); the write succeeds on an open socket,
\* fails on a socket that was shut down (both directions of a TcpStream, the
\* close_notify of an SslStream), and can fail on a socket the peer has closed
LifeTrySendStr(t) ==
    /\ MayCall(t)
    /\ IF client[t].kind = "None"
       THEN Returns(t, "try_send_str", Err("NotConfigured"))
       ELSE IF client[t].stream = NoStream
       THEN Returns(t, "try_send_str", Err("NotConnected"))
       ELSE LET sk == sockets[client[t].stream]
            IN /\ sk.holder = NoThread
               /\ IF sk.poisoned
                  THEN Returns(t, "try_send_str", Err("Mutex"))
                  ELSE IF sk.state = "shutdown"
                  THEN Returns(t, "try_send_str", Err("TcpStream"))
                  ELSE IF ~sk.eof
                  THEN Returns(t, "try_send_str", OkUnit)
                  ELSE \E r \in {OkUnit, Err("TcpStream")} :
                          Returns(t, "try_send_str", r)
    /\ UNCHANGED <<client, sockets, pc, line>>
    /\ UNCHANGED restVars
    /\ UNCHANGED parseVars

\* the peer writes the next byte of its line on connection s
LifePeerWrite(s) ==
    /\ sockets[s].state = "open"
    /\ ~sockets[s].eof
    /\ sockets[s].sent < Len(PeerLine(1, MaxLineLen))
    /\ sockets' = [sockets EXCEPT
          ![s].pending = Append(@, PeerLine(1, MaxLineLen)[sockets[s].sent + 1]),
          ![s].sent = @ + 1]
    /\ UNCHANGED <<client, pc, op, line, ret, ncalls>>
    /\ UNCHANGED restVars
    /\ UNCHANGED parseVars

\* the peer closes connection s
LifePeerClose(s) ==
    /\ sockets[s].state # "dropped"
    /\ ~sockets[s].eof
    /\ sockets' = [sockets EXCEPT ![s].eof = TRUE]
    /\ UNCHANGED <<client, pc, op, line, ret, ncalls>>
    /\ UNCHANGED restVars
    /\ UNCHANGED parseVars

LifeNext ==
    \/ \E t \in Threads : LifeTryConnect(t)
    \/ \E t \in Threads : LifeClose(t)
    \/ \E t \in Threads, u \in Threads : LifeClone(t, u)
    \/ \E t \in Threads, w \in TimeoutFields, d \in Timeouts : LifeTimeout(t, w, d)
    \/ \E t \in Threads, w \in TimeoutFields, d \in Timeouts : LifeSetTimeout(t, w, d)
    \/ \E t \in Threads : LifeRecvStr(t)
    \/ \E t \in Threads : LifeTryRecvStr(t)
    \/ \E t \in Threads : LifeReadLine(t)
    \/ \E t \in Threads : LifeReadEof(t)
    \/ \E t \in Threads : LifeReadTimedOut(t)
    \/ \E t \in Threads : LifeTrySendStr(t)
    \/ \E s \in 1..Len(sockets) : LifePeerWrite(s)
    \/ \E s \in 1..Len(sockets) : LifePeerClose(s)

SpecLife == LifeInit /\ [][LifeNext]_vars

(***************************************************************************)
(* Claims about Part III                                                   *)
(***************************************************************************)
\* C11: try_connect on a connected handle returns AlreadyConnected as a
\* no-op: no transport connection is made, whatever the peer would answer,
\* and the handle and its socket are unchanged
C11_TryConnectOnConnectedIsNoOp ==
    [][\A t \in Threads :
          (LifeTryConnect(t) /\ IsConnected(client[t]))
              => /\ ret'[t] = Err("AlreadyConnected")
                 /\ sockets' = sockets
                 /\ client' = client]_vars

\* C12: close on a handle without a socket (Client::None, never connected,
\* already closed) returns NotConnected and changes nothing
C12_CloseWithoutSocketIsNotConnected ==
    [][\A t \in Threads :
          (LifeClose(t) /\ ~IsConnected(client[t]))
              => /\ ret'[t] = Err("NotConnected")
                 /\ sockets' = sockets
                 /\ client' = client]_vars

\* the configuration of handle c: everything but its stream
Config(c) ==
    IF c.kind = "None" THEN c ELSE [c EXCEPT !.stream = NoStream]

\* C13: a try_connect that returns Ok leaves the handle connected, a close
\* that returns Ok leaves it not connected with its configuration kept, and
\* is_connected() of a handle changes in no step other than its try_connect,
\* its close and its creation as a clone
C13_ConnectAndCloseAlternate ==
    [][\A t \in Threads :
          /\ (LifeTryConnect(t) /\ ret'[t] = OkUnit)
                => (~IsConnected(client[t]) /\ IsConnected(client'[t]))
          /\ (LifeClose(t) /\ ret'[t] = OkUnit)
                => (~IsConnected(client'[t]) /\ Config(client'[t]) = Config(client[t]))
          /\ (IsConnected(client'[t]) # IsConnected(client[t]))
                => \/ LifeTryConnect(t)
                   \/ LifeClose(t)
                   \/ \E u \in Threads : LifeClone(u, t)]_vars

\* C13 witness: after a connect and a close that returned Ok, a second
\* try_connect of the same handle has returned Ok on a new socket
C13_Witness ==
    \E t \in Threads :
        /\ op[t] = "try_connect" /\ ret[t] = OkUnit
        /\ Len(sockets) = 2
        /\ sockets[1].state = "shutdown"
        /\ client[t].stream = 2
        /\ sockets[2].state = "open"

\* C16: recv_str on a connected handle returns a non-empty line or an error,
\* never Ok with an empty string
C16_RecvStrNeverEmpty ==
    \A t \in Threads : op[t] = "recv_str" => ret[t] # OkLine(<<>>)

\* the socket of connected handle t has a full line pending
FullLinePending(t) == FirstNL(sockets[client[t].stream].pending, 1) # 0

\* C17: try_recv_str on a connected handle returns Ok(None) when zero bytes
\* are pending on the socket, and Ok(Some(line)) with the first pending line
\* when a full line is pending
C17_TryRecvStrNoneOrFirstLine ==
    [][\A t \in Threads :
          /\ (/\ LifeTryRecvStr(t)
              /\ IsConnected(client[t])
              /\ sockets[client[t].stream].pending = <<>>)
                => ret'[t] = OkNone
          /\ (/\ LifeReadLine(t)
              /\ op[t] = "try_recv_str"
              /\ line[t] = <<>>
              /\ FullLinePending(t))
                => ret'[t] = OkLine(SubSeq(sockets[client[t].stream].pending, 1,
                                           FirstNL(sockets[client[t].stream].pending, 1)))]_vars

\* C18: a try_recv_str call never waits for bytes that have not arrived: it
\* is never inside its line read with nothing pending on a stream that is
\* not at its end
C18_TryRecvStrNeverWaits ==
    \A t \in Threads :
        (op[t] = "try_recv_str" /\ pc[t] = "read_line")
            => \/ sockets[client[t].stream].pending # <<>>
               \/ AtEof(sockets[client[t].stream])

\* C19: whenever a handle is connected, the read and write timeouts on its
\* socket are the values last given on that handle, which the handle stores
C19_TimeoutInForceIsLastGiven ==
    \A t \in Threads, w \in TimeoutFields :
        IsConnected(client[t]) => sockets[client[t].stream][w] = client[t][w]

\* SpecLife with the progress of a line read: the operating system hands
\* pending bytes and the end of the stream to a blocked read, and ends the
\* read when the socket's read timeout elapses
SpecLifeFair ==
    /\ SpecLife
    /\ \A t \in Threads :
          /\ WF_vars(LifeReadLine(t))
          /\ WF_vars(LifeReadEof(t))
          /\ WF_vars(LifeReadTimedOut(t))

\* C20: with a read timeout on the socket, put there by try_connect from the
\* value stored by read_timeout or by set_read_timeout on the connected
\* handle, a recv_str that waits for a line returns; when nothing is pending
\* and the stream is not at its end it returns Err(TcpStream) and leaves the
\* handle connected
C20_ReadTimeoutEndsRecvStr ==
    /\ \A t \in Threads :
          (/\ op[t] = "recv_str"
           /\ pc[t] = "read_line"
           /\ sockets[client[t].stream].read_timeout # NoTimeout)
              ~> (pc[t] = "idle")
    /\ [][\A t \in Threads :
             /\ (/\ op[t] = "recv_str"
                 /\ pc[t] = "read_line"
                 /\ pc'[t] = "idle"
                 /\ sockets[client[t].stream].pending = <<>>
                 /\ ~AtEof(sockets[client[t].stream]))
                   => /\ ret'[t] = Err("TcpStream")
                      /\ client' = client
                      /\ IsConnected(client'[t])
             /\ (LifeTryConnect(t) /\ ret'[t] = OkUnit)
                   => sockets'[client'[t].stream].read_timeout = client[t].read_timeout
             /\ \A d \in Timeouts :
                   (LifeSetTimeout(t, "read_timeout", d) /\ IsConnected(client[t]))
                       => sockets'[client[t].stream].read_timeout = d]_vars

\* C20 witness: a recv_str on a handle with a read timeout has returned
\* Err(TcpStream) and the handle is still connected
C20_Witness ==
    \E t \in Threads :
        /\ op[t] = "recv_str"
        /\ ret[t] = Err("TcpStream")
        /\ IsConnected(client[t])
        /\ client[t].read_timeout # NoTimeout
        /\ sockets[client[t].stream].read_timeout = client[t].read_timeout

\* a result that is an Err value
IsErr(r) == r.tag \notin {"none", "Ok", "OkNone", "OkLine"}

\* the non-blocking peek of raw_read fails, and not because no byte has
\* arrived yet: nothing is pending, the stream is at its end and the peek is
\* not Ok
PeekFails(sk) == sk.pending = <<>> /\ AtEof(sk) /\ ~PeekIsSome(sk)

\* C21: a failure of a socket operation met during a call is returned as an
\* Err value: a try_recv_str whose peek fails on a stream at its end does not
\* return a success, and an Ok(None) means only that no byte has arrived on a
\* stream that is not at its end
C21_FailuresAreReturnedAsErr ==
    [][\A t \in Threads :
          /\ (/\ LifeTryRecvStr(t)
              /\ IsConnected(client[t])
              /\ PeekFails(sockets[client[t].stream]))
                => IsErr(ret'[t])
          /\ (/\ LifeTryRecvStr(t)
              /\ IsConnected(client[t])
              /\ ret'[t] = OkNone)
                => /\ sockets[client[t].stream].pending = <<>>
                   /\ ~AtEof(sockets[client[t].stream])]_vars

\* C24: a close made while another thread holds the Mutex of the handle's
\* stream returns Err(Mutex) in one step, without waiting, and leaves the
\* socket, the holder's read and the other handles as they were
C24_CloseUnderLockFailsLoudly ==
    [][\A t \in Threads :
          (/\ LifeClose(t)
           /\ IsConnected(client[t])
           /\ sockets[client[t].stream].holder # NoThread)
              => /\ ret'[t] = Err("Mutex")
                 /\ pc'[t] = "idle"
                 /\ sockets' = sockets
                 /\ \A u \in Threads \ {t} :
                       /\ pc'[u] = pc[u]
                       /\ line'[u] = line[u]
                       /\ ret'[u] = ret[u]
                       /\ client'[u] = client[u]]_vars

\* C24 witness: a close has returned Err(Mutex) while the other thread was in
\* its recv_str, the socket is still open and that recv_str has returned the
\* peer's line
C24_Witness ==
    \E t \in Threads, u \in Threads :
        /\ op[u] = "close" /\ ret[u] = Err("Mutex")
        /\ op[t] = "recv_str" /\ ret[t] = OkLine(PeerLine(1, MaxLineLen))
        /\ IsConnected(client[t])
        /\ sockets[client[t].stream].state = "open"

\* the socket of the other transport in the same condition: same bytes
\* pending, same peer behaviour, same calls made on it
Twin(sk) == [sk EXCEPT !.kind = IF sk.kind = "Tcp" THEN "Ssl" ELSE "Tcp"]

\* C26: a Client::Tcp and a Client::Ssl return the same results for the same
\* calls and the same peer behaviour: a try_recv_str returns Ok(None) exactly
\* when it would on the other transport's socket in the same condition, and a
\* line read that ends at the end of the stream would end there as well
C26_TcpAndSslBehaveAlike ==
    [][\A t \in Threads :
          /\ (/\ LifeTryRecvStr(t)
              /\ IsConnected(client[t])
              /\ sockets[client[t].stream].holder = NoThread)
                => (ret'[t] = OkNone
                       <=> ~PeekIsSome(Twin(sockets[client[t].stream])))
          /\ LifeReadEof(t) => AtEof(Twin(sockets[client[t].stream]))]_vars

(***************************************************************************)
(* Part IV: configuration and destruction of handles.  The builders url,   *)
(* port and verif_certificate, the constructors Client::tcp / Client::ssl, *)
(* which consume the handle they are called on, and Drop, with the calls   *)
(* of Part III that connect, close, clone and read.                        *)
(***************************************************************************)
\* TcpClient::url / SslClient::url: the host is stored unless the handle is
\* connected; the handle is returned in both cases
LifeUrlUnguarded(t, h) ==
    /\ MayCall(t)
    /\ client[t].kind # "None"
    /\ Returns(t, "url", NoRet)
    /\ client' = [client EXCEPT ![t].url = h]
    /\ UNCHANGED <<sockets, pc, line>>
    /\ UNCHANGED restVars
    /\ UNCHANGED parseVars

LifeUrl(t, h) ==
    /\ MayCall(t)
    /\ client[t].kind # "None"
    /\ Returns(t, "url", NoRet)
    /\ client' = IF ~IsConnected(client[t])
                 THEN [client EXCEPT ![t].url = h]
                 ELSE client
    /\ UNCHANGED <<sockets, pc, line>>
    /\ UNCHANGED restVars
    /\ UNCHANGED parseVars

\* TcpClient::port / SslClient::port
LifePort(t, p) ==
    /\ MayCall(t)
    /\ client[t].kind # "None"
    /\ Returns(t, "port", NoRet)
    /\ client' = IF ~IsConnected(client[t])
                 THEN [client EXCEPT ![t].port = p]
                 ELSE client
    /\ UNCHANGED <<sockets, pc, line>>
    /\ UNCHANGED restVars
    /\ UNCHANGED parseVars

\* Client::verif_certificate: the flag of a Client::Ssl that is not connected
\* is set; any other handle is returned as it is
LifeVerifCertificate(t, v) ==
    /\ MayCall(t)
    /\ Returns(t, "verif_certificate", NoRet)
    /\ client' = IF client[t].kind = "Ssl" /\ ~IsConnected(client[t])
                 THEN [client EXCEPT ![t].verif_certificate = v]
                 ELSE client
    /\ UNCHANGED <<sockets, pc, line>>
    /\ UNCHANGED restVars
    /\ UNCHANGED parseVars

\* the sockets after Drop for Client on handle t: `let _ = self.close()`, so
\* a stream whose Mutex is free is shut down and every result is discarded;
\* Drop for TcpClient / SslClient then finds no stream
AfterDrop(t) ==
    IF IsConnected(client[t]) /\ sockets[client[t].stream].holder = NoThread
    THEN [sockets EXCEPT ![client[t].stream].state = "shutdown"]
    ELSE sockets

\* a drop that frees the handle without closing it
LifeDropWithoutClose(t) ==
    /\ MayCall(t)
    /\ Returns(t, "drop", NoRet)
    /\ sockets' = sockets
    /\ client' = [client EXCEPT ![t] = Unconfigured]
    /\ UNCHANGED <<pc, line>>
    /\ UNCHANGED restVars
    /\ UNCHANGED parseVars

\* thread t drops its handle by assigning Client::new() over it
LifeDrop(t) ==
    /\ MayCall(t)
    /\ Returns(t, "drop", NoRet)
    /\ sockets' = AfterDrop(t)
    /\ client' = [client EXCEPT ![t] = Unconfigured]
    /\ UNCHANGED <<pc, line>>
    /\ UNCHANGED restVars
    /\ UNCHANGED parseVars

\* Client::tcp(self, url, port) / Client::ssl(self, url, port): a new handle
\* is built and the handle the call was made on is dropped
LifeNew(t, k, h, p) ==
    /\ MayCall(t)
    /\ Returns(t, "new", NoRet)
    /\ sockets' = AfterDrop(t)
    /\ client' = [client EXCEPT ![t] = NewClientAt(k, h, p)]
    /\ UNCHANGED <<pc, line>>
    /\ UNCHANGED restVars
    /\ UNCHANGED parseVars

ConfInit ==
    /\ IoQuiet
    /\ IoIdle
    /\ \E k \in Kinds, h \in Hosts, p \in Ports :
          client = [t \in Threads |-> IF t = 1 THEN NewClientAt(k, h, p)
                                               ELSE Unconfigured]
    /\ sockets = <<>>

ConfNext ==
    \/ \E t \in Threads : LifeTryConnect(t)
    \/ \E t \in Threads : LifeClose(t)
    \/ \E t \in Threads, u \in Threads : LifeClone(t, u)
    \/ \E t \in Threads, h \in Hosts : LifeUrl(t, h)
    \/ \E t \in Threads, p \in Ports : LifePort(t, p)
    \/ \E t \in Threads, v \in BOOLEAN : LifeVerifCertificate(t, v)
    \/ \E t \in Threads : LifeDrop(t)
    \/ \E t \in Threads, k \in Kinds, h \in Hosts, p \in Ports : LifeNew(t, k, h, p)
    \/ \E t \in Threads : LifeRecvStr(t)
    \/ \E t \in Threads : LifeReadLine(t)
    \/ \E t \in Threads : LifeReadEof(t)
    \/ \E s \in 1..Len(sockets) : LifePeerWrite(s)
    \/ \E s \in 1..Len(sockets) : LifePeerClose(s)

SpecConf == ConfInit /\ [][ConfNext]_vars

(***************************************************************************)
(* Claims about Part IV                                                    *)
(***************************************************************************)
\* C22: while a handle holds a socket, its host, port and verify-certificate
\* flag do not change, and url(), port() and verif_certificate() called on a
\* connected handle return it as it was
C22_ConfigFixedWhileConnected ==
    [][\A t \in Threads :
          /\ (IsConnected(client[t]) /\ IsConnected(client'[t])
                  /\ client'[t].stream = client[t].stream)
                => client'[t] = client[t]
          /\ (/\ IsConnected(client[t])
              /\ \/ \E h \in Hosts : LifeUrl(t, h)
                 \/ \E p \in Ports : LifePort(t, p)
                 \/ \E v \in BOOLEAN : LifeVerifCertificate(t, v))
                => /\ client' = client
                   /\ sockets' = sockets
                   /\ pc'[t] = "idle"
                   /\ ~IsErr(ret'[t])]_vars

\* C22 witness: port() has been called on a connected handle, which is still
\* connected to its open socket
C22_Witness ==
    \E t \in Threads :
        /\ op[t] = "port"
        /\ IsConnected(client[t])
        /\ sockets[client[t].stream].state = "open"

\* C23: dropping a handle does what close does to its socket: a stream whose
\* Mutex is free is shut down, a stream whose Mutex is held and the sockets
\* of other handles are left alone; nothing is returned, whether the handle
\* is connected, not connected or Client::None
C23_DropClosesTheSocket ==
    [][\A t \in Threads :
          LifeDrop(t)
             => /\ (IsConnected(client[t])
                        /\ sockets[client[t].stream].holder = NoThread)
                      => sockets'[client[t].stream].state = "shutdown"
                /\ \A s \in 1..Len(sockets) :
                      (~IsConnected(client[t]) \/ s # client[t].stream
                          \/ sockets[s].holder # NoThread)
                         => sockets'[s] = sockets[s]
                /\ Len(sockets') = Len(sockets)
                /\ ~IsErr(ret'[t])
                /\ pc'[t] = "idle"
                /\ ~IsConnected(client'[t])]_vars

\* C23 witness: a handle was connected and then dropped, with no close in
\* between, and its socket is shut down
C23_Witness ==
    \E t \in Threads :
        /\ op[t] = "drop"
        /\ ncalls = 2
        /\ Len(sockets) = 1
        /\ sockets[1].state = "shutdown"

\* C25: a try_connect that fails on the transport connection or on the TLS
\* handshake leaves the handle not connected and as it was, and a
\* verif_certificate made on a handle that is not connected sets the flag
C25_FailedConnectLeavesNotConnected ==
    [][\A t \in Threads :
          /\ (LifeTryConnect(t) /\ ret'[t] \in {Err("TcpStream"), Err("SslStream")})
                => /\ ~IsConnected(client'[t])
                   /\ client'[t] = client[t]
          /\ \A v \in BOOLEAN :
                (/\ LifeVerifCertificate(t, v)
                 /\ client[t].kind = "Ssl"
                 /\ ~IsConnected(client[t]))
                   => client'[t].verif_certificate = v]_vars

(***************************************************************************)
(* Part V: requests.  A Request built by a constructor, its serialization  *)
(* by serde_json::to_string, the decoding of the serialized method and     *)
(* params, and the Debug text of a Method.  JSON values are kept as trees: *)
(* a number, a string, a boolean, null or an array; an object is the       *)
(* sequence of its <<key, value>> members in the order they are written.   *)
(***************************************************************************)
\* largest height, count, position and fee target
MaxHeight == 1

JNum(n) == [t |-> "num", v |-> n]
JStr(x) == [t |-> "str", v |-> x]
JBool(b) == [t |-> "bool", v |-> b]
JArr(a) == [t |-> "arr", v |-> a]
JNull == [t |-> "null", v |-> <<>>]

\* the values of the constructors' arguments
Heights == 0..MaxHeight
Texts == {"smart", "1.4"}
Txids == {"5df6e0e2761359d30a8275058e299fcc0381534545f55cf43e41983f5d4c9456"}
Scripts == {"00"}

\* ScriptHash::new(script), as the serialization tests give it
ScriptHashNew(script) ==
    "1da0af1706a31185763837b33f1d90782c0a78bbe644a59c987ab3ff9c0b346e"

\* a string of 64 hexadecimal digits: what a Txid and a ScriptHash are
\* written as and read from
IsHash(x) == x \in Txids \cup {ScriptHashNew(c) : c \in Scripts}

\* the fields of a Params variant, each with its Rust type
Usize(n) == [ty |-> "usize", v |-> n]
U16(n) == [ty |-> "u16", v |-> n]
Str(x) == [ty |-> "String", v |-> x]
Bool(b) == [ty |-> "bool", v |-> b]
Txid(x) == [ty |-> "Txid", v |-> x]
ScriptHash(x) == [ty |-> "ScriptHash", v |-> x]
Single(x) == [ty |-> "VersionKind::Single", v |-> x]
MinMax(a, b) == [ty |-> "VersionKind::MinMax", v |-> <<a, b>>]

\* a Params value: its variant, for TransactionGet the TxGetArgs variant
\* inside it, and its fields in their declared order
Param(variant, inner, fields) ==
    [variant |-> variant, inner |-> inner, fields |-> fields]
ParamsNone == Param("None", "", <<>>)

\* the public constructors of Request
Constructors ==
    {"ping", "version", "version_range", "banner", "donation", "features",
     "subscribe_peers", "header", "headers", "estimate_fee", "subscribe_headers",
     "relay_fee", "sh_get_balance", "sh_get_history", "sh_list_unspent",
     "subscribe_sh", "unsubscribe_sh", "tx_broadcast", "tx_get", "tx_get_verbose",
     "tx_get_merkle", "tx_from_pos", "get_fee_histogram"}

\* the arguments a constructor is called with
CtorArgs(c) ==
    CASE c \in {"version"} -> Texts \X Texts
      [] c \in {"version_range"} -> Texts \X Texts \X Texts
      [] c \in {"header", "estimate_fee"} -> {<<h>> : h \in Heights}
      [] c \in {"headers"} -> Heights \X Heights
      [] c \in {"sh_get_balance", "sh_get_history", "sh_list_unspent",
                "subscribe_sh", "unsubscribe_sh"} -> {<<x>> : x \in Scripts}
      [] c \in {"tx_broadcast"} -> {<<x>> : x \in Texts \cup Txids}
      [] c \in {"tx_get", "tx_get_verbose"} -> {<<x>> : x \in Txids}
      [] c \in {"tx_get_merkle"} -> Txids \X Heights
      [] c \in {"tx_from_pos"} -> Heights \X Heights \X BOOLEAN
      [] OTHER -> {<<>>}

\* the Method a constructor passes to Request::new
CtorMethod(c) ==
    CASE c = "ping" -> "Ping"
      [] c = "version" -> "Version"
      [] c = "version_range" -> "Version"
      [] c = "banner" -> "Banner"
      [] c = "donation" -> "Donation"
      [] c = "features" -> "Features"
      [] c = "subscribe_peers" -> "ListPeers"
      [] c = "header" -> "BlockHeader"
      [] c = "headers" -> "BlockHeaders"
      [] c = "estimate_fee" -> "EstimateFee"
      [] c = "subscribe_headers" -> "HeadersSubscribe"
      [] c = "relay_fee" -> "RelayFee"
      [] c = "sh_get_balance" -> "ScriptHashGetBalance"
      [] c = "sh_get_history" -> "ScriptHashGetHistory"
      [] c = "sh_list_unspent" -> "ScriptHashListUnspent"
      [] c = "subscribe_sh" -> "ScriptHashSubscribe"
      [] c = "unsubscribe_sh" -> "ScriptHashUnsubscribe"
      [] c = "tx_broadcast" -> "TransactionBroadcast"
      [] c = "tx_get" -> "TransactionGet"
      [] c = "tx_get_verbose" -> "TransactionGet"
      [] c = "tx_get_merkle" -> "TransactionGetMerkle"
      [] c = "tx_from_pos" -> "TransactionFromPosition"
      [] c = "get_fee_histogram" -> "FeeHistogram"

\* the Params a constructor passes to Request::new
CtorParams(c, a) ==
    CASE c = "version" -> Param("Version", "", <<Str(a[1]), Single(a[2])>>)
      [] c = "version_range" ->
            Param("Version", "", <<Str(a[1]), MinMax(a[2], a[3])>>)
      [] c = "header" -> Param("BlockHeader", "", <<Usize(a[1])>>)
      [] c = "headers" -> Param("BlockHeaders", "", <<Usize(a[1]), Usize(a[2])>>)
      [] c = "estimate_fee" -> Param("EstimateFee", "", <<U16(a[1])>>)
      [] c = "sh_get_balance" ->
            Param("ScriptHashGetBalance", "", <<ScriptHash(ScriptHashNew(a[1]))>>)
      [] c = "sh_get_history" ->
            Param("ScriptHashGetHistory", "", <<ScriptHash(ScriptHashNew(a[1]))>>)
      [] c = "sh_list_unspent" ->
            Param("ScriptHashListUnspent", "", <<ScriptHash(ScriptHashNew(a[1]))>>)
      [] c = "subscribe_sh" ->
            Param("ScriptHashSubscribe", "", <<ScriptHash(ScriptHashNew(a[1]))>>)
      [] c = "unsubscribe_sh" ->
            Param("ScriptHashUnsubscribe", "", <<ScriptHash(ScriptHashNew(a[1]))>>)
      [] c = "tx_broadcast" -> Param("TransactionBroadcast", "", <<Str(a[1])>>)
      [] c = "tx_get" -> Param("TransactionGet", "Txid", <<Txid(a[1])>>)
      [] c = "tx_get_verbose" ->
            Param("TransactionGet", "TxidVerbose", <<Txid(a[1]), Bool(TRUE)>>)
      [] c = "tx_get_merkle" ->
            Param("TransactionGetMerkle", "", <<Txid(a[1]), Usize(a[2])>>)
      [] c = "tx_from_pos" ->
            Param("TransactionFromPosition", "",
                  <<Usize(a[1]), Usize(a[2]), Bool(a[3])>>)
      [] OTHER -> ParamsNone

\* Request::new(method, params), then Request::id(id)
NewRequest(method, params) ==
    [jsonrpc |-> "2.0", id |-> 0, method |-> method, params |-> params]
WithId(r, i) == [r EXCEPT !.id = i]
BuildRequest(c, a, i) == WithId(NewRequest(CtorMethod(c), CtorParams(c, a)), i)

\* Serialize for the field of a variant: integers as numbers, String, Txid
\* and ScriptHash as strings, VersionKind untagged
ToJson(f) ==
    CASE f.ty \in {"usize", "u16"} -> JNum(f.v)
      [] f.ty \in {"String", "Txid", "ScriptHash", "VersionKind::Single"} -> JStr(f.v)
      [] f.ty = "bool" -> JBool(f.v)
      [] f.ty = "VersionKind::MinMax" -> JArr(<<JStr(f.v[1]), JStr(f.v[2])>>)

\* Serialize for Params as serde derives it for an untagged enum: a unit
\* variant is written as null
SerializeParamsDerived(p) ==
    IF p.variant = "None"
    THEN JNull
    ELSE JArr([i \in 1..Len(p.fields) |-> ToJson(p.fields[i])])

\* Serialize for Params: untagged, so a variant is written as its tuple, and
\* None with serialize_with = "default", an empty sequence
SerializeParams(p) ==
    IF p.variant = "None"
    THEN JArr(<<>>)
    ELSE JArr([i \in 1..Len(p.fields) |-> ToJson(p.fields[i])])

\* Serialize for Method: the renamed variant, as a string
SerializeMethod(m) == JStr(WireName(m))

\* serde_json::to_string(&request): the derived Serialize of the struct
\* writes its fields in the order they are declared
RequestToString(r) ==
    << <<"jsonrpc", JStr(r.jsonrpc)>>,
       <<"id", JNum(r.id)>>,
       <<"method", SerializeMethod(r.method)>>,
       <<"params", SerializeParams(r.params)>> >>

\* impl Debug for Method
DebugNameDerived(m) == m

DebugName(m) ==
    CASE m = "Banner" -> "server.banner"
      [] m = "BlockHeader" -> "blockchain.block.header"
      [] m = "BlockHeaders" -> "blockchain.block.headers"
      [] m = "TransactionBroadcast" -> "blockchain.transaction.broadcast"
      [] m = "Donation" -> "server.donation_address"
      [] m = "EstimateFee" -> "blockchain.estimatefee"
      [] m = "Features" -> "server.features"
      [] m = "HeadersSubscribe" -> "blockchain.headers.subscribe"
      [] m = "FeeHistogram" -> "mempool.get_fee_histogram"
      [] m = "ListPeers" -> "server.peers.subscribe"
      [] m = "Ping" -> "server.ping"
      [] m = "RelayFee" -> "blockchain.relayfee"
      [] m = "ScriptHashGetBalance" -> "blockchain.scripthash.get_balance"
      [] m = "ScriptHashGetHistory" -> "blockchain.scripthash.get_history"
      [] m = "ScriptHashListUnspent" -> "blockchain.scripthash.listunspent"
      [] m = "ScriptHashSubscribe" -> "blockchain.scripthash.subscribe"
      [] m = "ScriptHashUnsubscribe" -> "blockchain.scripthash.unsubscribe"
      [] m = "TransactionGet" -> "blockchain.transaction.get"
      [] m = "TransactionGetMerkle" -> "blockchain.transaction.get_merkle"
      [] m = "TransactionFromPosition" -> "blockchain.transaction.id_from_pos"
      [] m = "Version" -> "server.version"

\* the result of a decoding
DecodeOk(x) == [tag |-> "Ok", v |-> x]
DecodeErr == [tag |-> "Err"]

\* Deserialize for Method
DecodeMethod(j) ==
    IF j.t = "str" /\ IsMethodName(j.v)
    THEN DecodeOk(MethodOfName(j.v))
    ELSE DecodeErr

\* what the Deserialize of a field type accepts
IsUsize(j) == j.t = "num" /\ j.v >= 0
IsU16(j) == j.t = "num" /\ j.v >= 0 /\ j.v <= 65535
IsString(j) == j.t = "str"
IsBool(j) == j.t = "bool"
IsTxid(j) == j.t = "str" /\ IsHash(j.v)
IsScriptHash(j) == j.t = "str" /\ IsHash(j.v)
IsMinMax(j) ==
    j.t = "arr" /\ Len(j.v) = 2 /\ IsString(j.v[1]) /\ IsString(j.v[2])

\* a tuple of n fields is read from an array of exactly n elements
IsTuple(j, n) == j.t = "arr" /\ Len(j.v) = n

\* Deserialize for VersionKind (untagged): Single, then MinMax
DecodeVersionKind(j) ==
    IF IsString(j) THEN Single(j.v) ELSE MinMax(j.v[1].v, j.v[2].v)

\* Deserialize for Params (untagged): the variants are tried in the order
\* they are declared and the first that reads the value is returned; the
\* unit variant None reads null only
DecodeParams(j) ==
    IF j.t = "null"
    THEN DecodeOk(ParamsNone)
    ELSE IF IsTuple(j, 1) /\ IsUsize(j.v[1])
    THEN DecodeOk(Param("BlockHeader", "", <<Usize(j.v[1].v)>>))
    ELSE IF IsTuple(j, 2) /\ IsUsize(j.v[1]) /\ IsUsize(j.v[2])
    THEN DecodeOk(Param("BlockHeaders", "", <<Usize(j.v[1].v), Usize(j.v[2].v)>>))
    ELSE IF IsTuple(j, 1) /\ IsString(j.v[1])
    THEN DecodeOk(Param("TransactionBroadcast", "", <<Str(j.v[1].v)>>))
    ELSE IF IsTuple(j, 1) /\ IsU16(j.v[1])
    THEN DecodeOk(Param("EstimateFee", "", <<U16(j.v[1].v)>>))
    ELSE IF IsTuple(j, 1) /\ IsScriptHash(j.v[1])
    THEN DecodeOk(Param("ScriptHashGetBalance", "", <<ScriptHash(j.v[1].v)>>))
    ELSE IF IsTuple(j, 1) /\ IsScriptHash(j.v[1])
    THEN DecodeOk(Param("ScriptHashGetHistory", "", <<ScriptHash(j.v[1].v)>>))
    ELSE IF IsTuple(j, 1) /\ IsScriptHash(j.v[1])
    THEN DecodeOk(Param("ScriptHashGetMempool", "", <<ScriptHash(j.v[1].v)>>))
    ELSE IF IsTuple(j, 1) /\ IsScriptHash(j.v[1])
    THEN DecodeOk(Param("ScriptHashListUnspent", "", <<ScriptHash(j.v[1].v)>>))
    ELSE IF IsTuple(j, 1) /\ IsScriptHash(j.v[1])
    THEN DecodeOk(Param("ScriptHashSubscribe", "", <<ScriptHash(j.v[1].v)>>))
    ELSE IF IsTuple(j, 1) /\ IsScriptHash(j.v[1])
    THEN DecodeOk(Param("ScriptHashUnsubscribe", "", <<ScriptHash(j.v[1].v)>>))
    ELSE IF IsTuple(j, 1) /\ IsTxid(j.v[1])
    THEN DecodeOk(Param("TransactionGet", "Txid", <<Txid(j.v[1].v)>>))
    ELSE IF IsTuple(j, 2) /\ IsTxid(j.v[1]) /\ IsBool(j.v[2])
    THEN DecodeOk(Param("TransactionGet", "TxidVerbose",
                        <<Txid(j.v[1].v), Bool(j.v[2].v)>>))
    ELSE IF IsTuple(j, 2) /\ IsTxid(j.v[1]) /\ IsUsize(j.v[2])
    THEN DecodeOk(Param("TransactionGetMerkle", "",
                        <<Txid(j.v[1].v), Usize(j.v[2].v)>>))
    ELSE IF IsTuple(j, 3) /\ IsUsize(j.v[1]) /\ IsUsize(j.v[2]) /\ IsBool(j.v[3])
    THEN DecodeOk(Param("TransactionFromPosition", "",
                        <<Usize(j.v[1].v), Usize(j.v[2].v), Bool(j.v[3].v)>>))
    ELSE IF IsTuple(j, 2) /\ IsString(j.v[1]) /\ (IsString(j.v[2]) \/ IsMinMax(j.v[2]))
    THEN DecodeOk(Param("Version", "",
                        <<Str(j.v[1].v), DecodeVersionKind(j.v[2])>>))
    ELSE DecodeErr

\* the input of a call of Part V
RawRequest(c, a, r) == [kind |-> "request", ctor |-> c, args |-> a, req |-> r]
RawMethod(m) == [kind |-> "method", m |-> m]

ReqInit ==
    /\ IoQuiet
    /\ LifeIdle
    /\ IoIdle

\* serde_json::to_string(&request) of a request a constructor has built
ApplyToString ==
    /\ call = "none"
    /\ \E c \in Constructors : \E a \in CtorArgs(c), i \in Ids :
          /\ raw' = RawRequest(c, a, BuildRequest(c, a, i))
          /\ out' = RequestToString(BuildRequest(c, a, i))
    /\ call' = "to_string"
    /\ UNCHANGED index
    /\ UNCHANGED ioVars
    /\ UNCHANGED lifeVars

\* the method and the params of the serialized request, decoded
ApplyDecode ==
    /\ call = "none"
    /\ \E c \in Constructors : \E a \in CtorArgs(c), i \in Ids :
          /\ raw' = RawRequest(c, a, BuildRequest(c, a, i))
          /\ out' = [method |-> DecodeMethod(RequestToString(BuildRequest(c, a, i))[3][2]),
                     params |-> DecodeParams(RequestToString(BuildRequest(c, a, i))[4][2])]
    /\ call' = "decode"
    /\ UNCHANGED index
    /\ UNCHANGED ioVars
    /\ UNCHANGED lifeVars

\* format!("{:?}", method)
ApplyDebug ==
    /\ call = "none"
    /\ \E m \in Methods :
          /\ raw' = RawMethod(m)
          /\ out' = DebugName(m)
    /\ call' = "fmt"
    /\ UNCHANGED index
    /\ UNCHANGED ioVars
    /\ UNCHANGED lifeVars

\* a Method serialized and read back
ApplyMethodRoundTrip ==
    /\ call = "none"
    /\ \E m \in Methods :
          /\ raw' = RawMethod(m)
          /\ out' = DecodeMethod(SerializeMethod(m))
    /\ call' = "method_round_trip"
    /\ UNCHANGED index
    /\ UNCHANGED ioVars
    /\ UNCHANGED lifeVars

\* a public constructor of Request, alone
ApplyNew ==
    /\ call = "none"
    /\ \E c \in Constructors : \E a \in CtorArgs(c) :
          /\ raw' = [kind |-> "new", ctor |-> c, args |-> a]
          /\ out' = NewRequest(CtorMethod(c), CtorParams(c, a))
    /\ call' = "new"
    /\ UNCHANGED index
    /\ UNCHANGED ioVars
    /\ UNCHANGED lifeVars

\* Request::id(n) on a request that already has an id
ApplyId ==
    /\ call = "none"
    /\ \E c \in Constructors : \E a \in CtorArgs(c), i \in Ids, n \in Ids :
          /\ raw' = [kind |-> "id", req |-> BuildRequest(c, a, i), n |-> n]
          /\ out' = WithId(BuildRequest(c, a, i), n)
    /\ call' = "id"
    /\ UNCHANGED index
    /\ UNCHANGED ioVars
    /\ UNCHANGED lifeVars

\* the requests the callers put in a batch: two methods, every id
BatchRequests ==
    {BuildRequest(c, a, i) : c \in {"ping"}, a \in CtorArgs("ping"), i \in Ids}
        \cup {BuildRequest(c, a, i) : c \in {"header"}, a \in CtorArgs("header"), i \in Ids}

\* the Vec<&Request> values handed to try_send_batch
RequestBatches == UNION {[1..n -> BatchRequests] : n \in 0..MaxBatch}

\* a serializer that refuses a batch in which an id occurs twice
BatchJsonUniqueIds(reqs) ==
    IF \E j \in 1..Len(reqs), k \in 1..Len(reqs) : j # k /\ reqs[j].id = reqs[k].id
    THEN [t |-> "Error::Batch", v |-> <<>>]
    ELSE JArr([k \in 1..Len(reqs) |-> RequestToString(reqs[k])])

\* serde_json::to_string(&requests) in try_send_batch: Serialize for Vec
\* writes a sequence of its elements, each by Serialize for Request
BatchJson(reqs) == JArr([k \in 1..Len(reqs) |-> RequestToString(reqs[k])])

\* Client::try_send_batch up to the call of try_send_str: the string it hands
\* over
ApplyBatchToString ==
    /\ call = "none"
    /\ \E reqs \in RequestBatches :
          /\ raw' = [kind |-> "batch", reqs |-> reqs]
          /\ out' = BatchJson(reqs)
    /\ call' = "try_send_batch"
    /\ UNCHANGED index
    /\ UNCHANGED ioVars
    /\ UNCHANGED lifeVars

ReqNext ==
    \/ ApplyToString
    \/ ApplyDecode
    \/ ApplyDebug
    \/ ApplyMethodRoundTrip
    \/ ApplyNew
    \/ ApplyId
    \/ ApplyBatchToString

SpecReq == ReqInit /\ [][ReqNext]_vars

(***************************************************************************)
(* Claims about Part V                                                     *)
(***************************************************************************)
\* C27: for every request a constructor builds, the decoding of its
\* serialized method and params gives back the same Method and the same
\* Params variant with the same values, Params::None included
C27_RequestRoundTrips ==
    call = "decode"
        => /\ out.method = DecodeOk(raw.req.method)
           /\ out.params = DecodeOk(raw.req.params)

\* C28: the 21 methods have 21 distinct wire names, the wire name of a method
\* decodes to that method, and the Debug text of a method is its wire name
C28_MethodNamesAreABijection ==
    /\ Cardinality(Methods) = 21
    /\ \A m \in Methods, n \in Methods : m # n => WireName(m) # WireName(n)
    /\ call = "method_round_trip" => out = DecodeOk(raw.m)
    /\ call = "fmt" => out = WireName(raw.m)

\* C28 witness: the Debug text of Method::TransactionFromPosition has been
\* produced
C28_Witness ==
    /\ call = "fmt"
    /\ raw.m = "TransactionFromPosition"
    /\ out = "blockchain.transaction.id_from_pos"

\* the methods whose constructors take no argument
NoArgumentMethods ==
    {"Ping", "Banner", "Donation", "Features", "ListPeers", "HeadersSubscribe",
     "RelayFee", "FeeHistogram"}

\* the JSON of the arguments of constructor c, in the order they are given
ArgumentsJson(c, a) ==
    CASE c \in {"version"} -> <<JStr(a[1]), JStr(a[2])>>
      [] c \in {"version_range"} -> <<JStr(a[1]), JArr(<<JStr(a[2]), JStr(a[3])>>)>>
      [] c \in {"header", "estimate_fee"} -> <<JNum(a[1])>>
      [] c \in {"headers"} -> <<JNum(a[1]), JNum(a[2])>>
      [] c \in {"sh_get_balance", "sh_get_history", "sh_list_unspent",
                "subscribe_sh", "unsubscribe_sh"} -> <<JStr(ScriptHashNew(a[1]))>>
      [] c \in {"tx_broadcast", "tx_get"} -> <<JStr(a[1])>>
      [] c \in {"tx_get_verbose"} -> <<JStr(a[1]), JBool(TRUE)>>
      [] c \in {"tx_get_merkle"} -> <<JStr(a[1]), JNum(a[2])>>
      [] c \in {"tx_from_pos"} -> <<JNum(a[1]), JNum(a[2]), JBool(a[3])>>
      [] OTHER -> <<>>

\* C29: a serialized request is an object of exactly the members jsonrpc, id,
\* method, params, in that order; jsonrpc is "2.0", id the request's id,
\* method the wire name, and params an array, never null: empty for a method
\* without arguments, otherwise the arguments in the order they were given
C29_SerializedRequestShape ==
    call = "to_string"
        => /\ [i \in 1..Len(out) |-> out[i][1]] = <<"jsonrpc", "id", "method", "params">>
           /\ out[1][2] = JStr("2.0")
           /\ out[2][2] = JNum(raw.req.id)
           /\ out[3][2] = JStr(WireName(raw.req.method))
           /\ out[4][2].t = "arr"
           /\ raw.req.method \in NoArgumentMethods => out[4][2].v = <<>>
           /\ out[4][2].v = ArgumentsJson(raw.ctor, raw.args)

\* C29 witness: a version_range request with the largest id, whose params
\* nest an array, has been serialized
C29_Witness ==
    /\ call = "to_string"
    /\ raw.ctor = "version_range"
    /\ raw.req.id = MaxId
    /\ out[4][2].v[2].t = "arr"

\* C31: every constructor of Request yields id 0; Request::id(n) sets the id
\* to n and leaves jsonrpc, method and params as they were; try_send_batch
\* serializes every request it is given, in order, each with the id it has,
\* whether or not that id occurs more than once in the batch
C31_IdsAreTheCallersBusiness ==
    /\ call = "new"
          => /\ out.id = 0
             /\ out.method = CtorMethod(raw.ctor)
    /\ call = "id"
          => /\ out.id = raw.n
             /\ out.jsonrpc = raw.req.jsonrpc
             /\ out.method = raw.req.method
             /\ out.params = raw.req.params
    /\ call = "try_send_batch"
          => /\ out.t = "arr"
             /\ Len(out.v) = Len(raw.reqs)
             /\ \A k \in 1..Len(raw.reqs) :
                   /\ out.v[k][2] = <<"id", JNum(raw.reqs[k].id)>>
                   /\ out.v[k][3] = <<"method", JStr(WireName(raw.reqs[k].method))>>

\* C31 witness: a batch of a ping and a header request that both carry id
\* MaxId has been serialized
C31_Witness ==
    /\ call = "try_send_batch"
    /\ Len(raw.reqs) = 2
    /\ raw.reqs[1].method = "Ping" /\ raw.reqs[2].method = "BlockHeader"
    /\ raw.reqs[1].id = MaxId /\ raw.reqs[2].id = MaxId
    /\ out.v[1][2][2] = JNum(MaxId) /\ out.v[2][2][2] = JNum(MaxId)

(***************************************************************************)
(* Part VI: batches.  try_send_batch serializes its requests as one JSON   *)
(* array and hands the string to try_send_str, whose steps are those of    *)
(* Part I.  A request is written here as the three bytes `{`, the digit of *)
(* its id, `}`.                                                            *)
(***************************************************************************)
\* the ids of the requests of a batch
BatchIds == {1, 2}

\* Vec<&Request>: the requests of a batch, by their ids, in the given order
Batches == UNION {[1..n -> BatchIds] : n \in 0..MaxBatch}

\* serde_json::to_string(request), as bytes
RequestBytes(i) == <<123, 48 + i, 125>>

\* the elements written one per line
RECURSIVE BatchElementsPerLine(_)
BatchElementsPerLine(b) ==
    IF b = <<>> THEN <<>>
    ELSE IF Len(b) = 1 THEN RequestBytes(b[1])
    ELSE RequestBytes(b[1]) \o <<NL>> \o BatchElementsPerLine(Tail(b))

\* the elements of a JSON array: separated by `,`
RECURSIVE BatchElements(_)
BatchElements(b) ==
    IF b = <<>> THEN <<>>
    ELSE IF Len(b) = 1 THEN RequestBytes(b[1])
    ELSE RequestBytes(b[1]) \o <<44>> \o BatchElements(Tail(b))

\* serde_json::to_string(&requests): `[`, the elements, `]`
BatchToString(b) == <<91>> \o BatchElements(b) \o <<93>>

\* Client::try_send_batch(requests): the serialized array is passed to
\* try_send_str
TrySendBatchOf(t, b) == Enter(t, "try_send_str", BatchToString(b))
TrySendBatch(t) == \E b \in Batches : TrySendBatchOf(t, b)

BatchNext ==
    \/ \E t \in Threads : TryConnect(t)
    \/ \E t \in Threads, u \in Threads : Clone(t, u)
    \/ \E t \in Threads : TrySendStr(t)
    \/ \E t \in Threads : TrySendBatch(t)
    \/ \E t \in Threads : Lock(t)
    \/ \E t \in Threads : SendPayload(t)
    \/ \E t \in Threads : SendNewline(t)
    \/ \E t \in Threads : SendFlush(t)

SpecBatch == IoInit /\ [][BatchNext]_vars

(***************************************************************************)
(* Claims about Part VI                                                    *)
(***************************************************************************)
\* a payload that is a serialized batch
IsBatch(p) == p # <<>> /\ p[1] = 91

\* the ids of the requests in a serialized batch, in the order written
DigitsOf(p) == SelectSeq(p, LAMBDA c : c \in {48 + i : i \in BatchIds})
IdsWritten(p) == [k \in 1..Len(DigitsOf(p)) |-> DigitsOf(p)[k] - 48]

\* the number of bytes on the wire before the k-th send of log l
BytesBefore(l, k) == Len(Flatten(SubSeq(l, 1, k - 1)))

TryConnectResult(c, accepted, handshake) ==
    IF c.kind = "None" THEN Err("NotConfigured")
    ELSE IF ~accepted THEN Err("TcpStream")
    ELSE IF ~handshake THEN Err("SslStream")
    ELSE IF c.stream = NoStream THEN OkUnit
    ELSE Err("AlreadyConnected")

\* Client::connect: self.try_connect().unwrap()
LifeConnect(t) ==
    /\ MayCall(t)
    /\ \E accepted \in BOOLEAN, handshake \in BOOLEAN :
          /\ accepted => (client[t].kind # "None" /\ Len(sockets) < MaxSocks)
          /\ handshake => accepted
          /\ (accepted /\ client[t].kind = "Tcp") => handshake
          /\ CertificateRefused(client[t]) => ~handshake
          /\ LET r == TryConnectResult(client[t], accepted, handshake)
             IN /\ Returns(t, "connect", IF r = OkUnit THEN OkUnit ELSE Panic(r.tag))
                /\ pc' = [pc EXCEPT ![t] = IF r = OkUnit THEN "idle" ELSE "panicked"]
                /\ sockets' = IF ~accepted THEN sockets
                              ELSE IF r = OkUnit
                              THEN Append(sockets, NewSocket(client[t]))
                              ELSE Append(sockets,
                                     [NewSocket(client[t]) EXCEPT !.state = "dropped"])
                /\ client' = IF r = OkUnit
                             THEN [client EXCEPT ![t].stream = Len(sockets) + 1]
                             ELSE client
    /\ UNCHANGED line
    /\ UNCHANGED restVars
    /\ UNCHANGED parseVars

RetryNext ==
    \/ \E t \in Threads : LifeConnect(t)
    \/ \E t \in Threads : LifeTryConnect(t)
    \/ \E t \in Threads : LifeClose(t)
    \/ \E t \in Threads, u \in Threads : LifeClone(t, u)
    \/ \E t \in Threads, v \in BOOLEAN : LifeVerifCertificate(t, v)
    \/ \E s \in 1..Len(sockets) : LifePeerClose(s)

SpecRetry == ConfInit /\ [][RetryNext]_vars

(***************************************************************************)
(* Claims about Part VII                                                   *)
(***************************************************************************)
\* C32: the connect helper always comes back to its caller with a result: on
\* an Unconfigured handle it returns NotConfigured at once, it stops at the
\* first successful attempt, and after failed attempts it returns the error
\* of the last one (a transport-level connect failure)
C32_ConnectRetriesAndReturnsLastError ==
    [][\A t \in Threads :
          LifeConnect(t)
              => /\ pc'[t] = "idle"
                 /\ client[t].kind = "None" => ret'[t] = Err("NotConfigured")
                 /\ ret'[t] \in {OkUnit, Err("NotConfigured"), Err("TcpStream"),
                                 Err("SslStream"), Err("AlreadyConnected")}]_vars

(***************************************************************************)
(* Part VIII: sends that fail.  The steps of try_send_str are those of     *)
(* Part I; here a write_all can fail: the write timeout put on the socket  *)
(* elapses while the peer does not read (or the connection breaks), after  *)
(* some of the bytes were given to the socket.                             *)
(***************************************************************************)
\* send: stream.write_all(request.as_bytes()).map_err(Error::TcpStream)?
\* failing after k bytes of the payload were written; the MutexGuard is
\* dropped on return
SendPayloadFails(t) ==
    /\ pc[t] = "write"
    /\ \E k \in 0..(Len(arg[t]) - 1) :
          wire' = wire \o SubSeq(arg[t], 1, k)
    /\ lock' = IF lock = t THEN NoThread ELSE lock
    /\ ret' = [ret EXCEPT ![t] = Err("TcpStream")]
    /\ pc' = [pc EXCEPT ![t] = "idle"]
    /\ arg' = [arg EXCEPT ![t] = <<>>]
    /\ UNCHANGED <<conn, sock, inflight, rcvbuf, op, line,
                   sentLines, returned, sendlog, ncalls>>
    /\ UNCHANGED parseVars
    /\ UNCHANGED lifeVars

\* send: stream.write_all(&[10]).map_err(Error::TcpStream)? failing: the
\* payload is on the wire, its newline is not
SendNewlineFails(t) ==
    /\ pc[t] = "newline"
    /\ lock' = IF lock = t THEN NoThread ELSE lock
    /\ ret' = [ret EXCEPT ![t] = Err("TcpStream")]
    /\ pc' = [pc EXCEPT ![t] = "idle"]
    /\ arg' = [arg EXCEPT ![t] = <<>>]
    /\ UNCHANGED <<conn, sock, inflight, rcvbuf, wire, op, line,
                   sentLines, returned, sendlog, ncalls>>
    /\ UNCHANGED parseVars
    /\ UNCHANGED lifeVars

FaultNext ==
    \/ \E t \in Threads : TryConnect(t)
    \/ \E t \in Threads, u \in Threads : Clone(t, u)
    \/ \E t \in Threads : TrySendStr(t)
    \/ \E t \in Threads : Lock(t)
    \/ \E t \in Threads : SendPayload(t)
    \/ \E t \in Threads : SendPayloadFails(t)
    \/ \E t \in Threads : SendNewline(t)
    \/ \E t \in Threads : SendNewlineFails(t)
    \/ \E t \in Threads : SendFlush(t)

SpecSendFault == IoInit /\ [][FaultNext]_vars

(***************************************************************************)
(* Claims about Part VIII                                                  *)
(***************************************************************************)
\* C33: whenever a try_send_str returns Ok, its frame (the payload and one
\* newline) is the end of the wire and stands on a line of its own: it is at
\* the start of the wire or right after a newline, whatever sends have failed
\* before it
C33_FailedSendLeavesNoFragment ==
    [][\A t \in Threads :
          SendFlush(t)
              => LET f == Frame(arg[t])
                     n == Len(wire)
                 IN /\ n >= Len(f)
                    /\ SubSeq(wire, n - Len(f) + 1, n) = f
                    /\ (n = Len(f) \/ wire[n - Len(f)] = NL)]_vars

(***************************************************************************)
(* Part IX: clones after a close.  Two handles over one socket; one of     *)
(* them is closed or dropped, the other goes on sending and reading.       *)
(***************************************************************************)
ShareNext ==
    \/ \E t \in Threads : LifeTryConnect(t)
    \/ \E t \in Threads, u \in Threads : LifeClone(t, u)
    \/ \E t \in Threads : LifeClose(t)
    \/ \E t \in Threads : LifeDrop(t)
    \/ \E t \in Threads : LifeTrySendStr(t)
    \/ \E t \in Threads : LifeRecvStr(t)
    \/ \E t \in Threads : LifeTryRecvStr(t)
    \/ \E t \in Threads : LifeReadEof(t)
    \/ \E s \in 1..Len(sockets) : LifePeerClose(s)

SpecShare == LifeInit /\ [][ShareNext]_vars

(***************************************************************************)
(* Claims about Part IX                                                    *)
(***************************************************************************)
\* what a close or a drop of handle t leaves to the other handles: they are
\* as they were, still holding their stream
OthersKeepTheirHandle(t) ==
    \A u \in Threads \ {t} :
        /\ client'[u] = client[u]
        /\ IsConnected(client[u]) => IsConnected(client'[u])

\* a send or a read of handle u on a socket that was shut down reaches the
\* socket: it is not answered NotConnected or NotConfigured, the send fails on
\* the transport and the read of a TcpStream goes on to read the end of the
\* stream
ReachesTheShutDownSocket(u) ==
    (/\ IsConnected(client[u])
     /\ sockets[client[u].stream].state = "shutdown"
     /\ (LifeTrySendStr(u) \/ LifeRecvStr(u) \/ LifeTryRecvStr(u)))
        => /\ ret'[u] \notin {Err("NotConnected"), Err("NotConfigured")}
           /\ IsConnected(client'[u])
           /\ op'[u] = "try_send_str" => ret'[u] = Err("TcpStream")
           /\ (op'[u] # "try_send_str" /\ client[u].kind = "Tcp")
                 => (pc'[u] = "read_line" /\ AtEof(sockets'[client[u].stream]))

\* C34, as stated: a close that returns Ok, and every drop, of a connected
\* handle shuts down the socket its clones share; the other handles are
\* unchanged and still connected, and their later sends and reads reach the
\* shut-down socket instead of returning NotConnected
C34_CloseOrDropShutsTheSharedSocket ==
    [][\A t \in Threads :
          /\ (IsConnected(client[t])
                /\ ((LifeClose(t) /\ ret'[t] = OkUnit) \/ LifeDrop(t)))
                => /\ sockets'[client[t].stream].state = "shutdown"
                   /\ OthersKeepTheirHandle(t)
          /\ ReachesTheShutDownSocket(t)]_vars

\* C34, amended: the same, for a close that returns Ok and for a drop made
\* while no call holds the lock of the stream
C34_CloseOrFreeDropShutsTheSharedSocket ==
    [][\A t \in Threads :
          /\ (IsConnected(client[t])
                /\ \/ LifeClose(t) /\ ret'[t] = OkUnit
                   \/ LifeDrop(t) /\ sockets[client[t].stream].holder = NoThread)
                => /\ sockets'[client[t].stream].state = "shutdown"
                   /\ OthersKeepTheirHandle(t)
          /\ (IsConnected(client[t]) /\ LifeDrop(t))
                => OthersKeepTheirHandle(t)
          /\ ReachesTheShutDownSocket(t)]_vars

\* C34 witness: one handle was dropped, and the send of its clone, still
\* connected, has failed on the shut-down socket
C34_Witness ==
    \E t \in Threads, u \in Threads :
        /\ t # u
        /\ op[t] = "drop" /\ client[t] = Unconfigured
        /\ IsConnected(client[u])
        /\ sockets[client[u].stream].state = "shutdown"
        /\ op[u] = "try_send_str" /\ ret[u] = Err("TcpStream")

(***************************************************************************)
(* Further claims about Part III                                           *)
(***************************************************************************)
\* C35: a thread inside recv_str holds the Mutex of the stream for as long as
\* it waits for its line; while it does, no try_send_str, recv_str,
\* try_recv_str or timeout setter of a clone takes a step (they wait for the
\* Mutex), and a close of a clone returns at once, with Error::Mutex
C35_ReaderHoldsTheLockWhileItWaits ==
    /\ [](\A h \in Threads :
             pc[h] = "read_line"
                => /\ IsConnected(client[h])
                   /\ sockets[client[h].stream].holder = h)
    /\ [][\A h \in Threads, u \in Threads :
             (/\ h # u
              /\ pc[h] = "read_line" /\ op[h] = "recv_str"
              /\ IsConnected(client[u])
              /\ client[u].stream = client[h].stream)
                => /\ ~LifeTrySendStr(u)
                   /\ ~LifeRecvStr(u)
                   /\ ~LifeTryRecvStr(u)
                   /\ \A w \in TimeoutFields, d \in Timeouts : ~LifeSetTimeout(u, w, d)
                   /\ LifeClose(u) => (ret'[u] = Err("Mutex") /\ pc'[u] = "idle")
                   /\ pc'[h] = "read_line" => sockets'[client[h].stream].holder = h]_vars

\* C35 witness: a recv_str has read the start of a line and waits for the
\* rest while a clone of its handle, connected to the same stream, is idle
\* and may still call
C35_Witness ==
    \E h \in Threads, u \in Threads :
        /\ h # u
        /\ pc[h] = "read_line" /\ op[h] = "recv_str"
        /\ line[h] # <<>>
        /\ sockets[client[h].stream].pending = <<>>
        /\ pc[u] = "idle"
        /\ IsConnected(client[u]) /\ client[u].stream = client[h].stream
        /\ ncalls < MaxOps

\* C36: a close called on a handle that holds a stream leaves the handle
\* without a stream and otherwise as it was, whether it returns Ok,
\* Error::Mutex or Error::ShutDown, and when it returns Error::Mutex no socket
\* has changed; a close called on a configured handle without a stream
\* returns NotConnected, so the close after any close does
C36_CloseAlwaysGivesUpTheSocket ==
    [][\A t \in Threads :
          /\ (LifeClose(t) /\ IsConnected(client[t]))
                => /\ ~IsConnected(client'[t])
                   /\ client'[t] = [client[t] EXCEPT !.stream = NoStream]
                   /\ ret'[t] \in {OkUnit, Err("Mutex"), Err("ShutDown")}
                   /\ ret'[t] = Err("Mutex") => sockets' = sockets
          /\ (LifeClose(t) /\ client[t].kind # "None" /\ ~IsConnected(client[t]))
                => /\ ret'[t] = Err("NotConnected")
                   /\ UNCHANGED lifeVars]_vars

\* C36 witness: a close has returned Error::ShutDown, on a socket the peer
\* had closed, and its handle holds no stream
C36_Witness ==
    \E t \in Threads :
        /\ op[t] = "close" /\ ret[t] = Err("ShutDown")
        /\ client[t].kind # "None" /\ ~IsConnected(client[t])
        /\ \E s \in 1..Len(sockets) : sockets[s].eof /\ sockets[s].state = "shutdown"

(***************************************************************************)
(* Further claims about Part II                                            *)
(***************************************************************************)
\* what parse_str_response makes of try_parse on the whole line
SingleObjectPath(r, idx) ==
    IF TryParse(r, idx).tag = "Ok"
    THEN OkBatch(<<TryParse(r, idx)>>)
    ELSE TryParse(r, idx)

\* C37: when an element of an array is answered with an error by the
\* classifier, parse_str_response returns what try_parse returns for the
\* whole line: no list of the elements that did classify, not the error of
\* the element, and never Error::BatchParsing
C37_FailedBatchFallsBackToSingleObject ==
    /\ (/\ call = "parse_str_response"
        /\ raw.kind = "array"
        /\ \E i \in 1..Len(raw.elems) :
              TryParse(RawObject(ReSerialize(raw.elems[i])), index).tag = "Err")
          => /\ out = SingleObjectPath(raw, index)
             /\ ~(out.tag = "Err" /\ out.v = "ResponseId")
    /\ call = "parse_str_response"
          => out # ErrResult("BatchParsing", -1)

(***************************************************************************)
(* Part X: the blocking mode of the socket.  raw_read is taken apart here: *)
(* set_nonblocking(true), the peek, set_nonblocking(false), then the line  *)
(* read of Part III; either change of mode can fail.                       *)
(***************************************************************************)
\* recv_str / try_recv_str up to stream.lock()
ReadEnter(t, o) ==
    /\ MayCall(t)
    /\ UNCHANGED <<client, line>>
    /\ IF client[t].kind = "None"
       THEN /\ Returns(t, o, Err("NotConfigured"))
            /\ UNCHANGED <<sockets, pc>>
       ELSE IF client[t].stream = NoStream
       THEN /\ Returns(t, o, Err("NotConnected"))
            /\ UNCHANGED <<sockets, pc>>
       ELSE /\ sockets[client[t].stream].holder = NoThread
            /\ Returns(t, o, NoRet)
            /\ sockets' = [sockets EXCEPT ![client[t].stream].holder = t]
            /\ pc' = [pc EXCEPT ![t] = "set_nonblocking"]
    /\ UNCHANGED restVars
    /\ UNCHANGED parseVars

\* raw_read: stream.set_nonblocking(true).map_err(|_| Error::SetNonBlocking)?
ReadSetNonBlocking(t) ==
    /\ pc[t] = "set_nonblocking"
    /\ \E ok \in BOOLEAN :
          IF ok
          THEN /\ sockets' = [sockets EXCEPT ![client[t].stream].nonblocking = TRUE]
               /\ pc' = [pc EXCEPT ![t] = "peek"]
               /\ UNCHANGED ret
          ELSE /\ sockets' = [sockets EXCEPT ![client[t].stream].holder = NoThread]
               /\ ret' = [ret EXCEPT ![t] = Err("SetNonBlocking")]
               /\ pc' = [pc EXCEPT ![t] = "idle"]
    /\ UNCHANGED <<client, op, line, ncalls>>
    /\ UNCHANGED restVars
    /\ UNCHANGED parseVars

\* a peek whose error is returned to the caller with `?`
ReadPeekReturnsError(t) ==
    /\ pc[t] = "peek"
    /\ IF PeekIsSome(sockets[client[t].stream])
       THEN /\ pc' = [pc EXCEPT ![t] = "peek_some"]
            /\ UNCHANGED <<sockets, ret>>
       ELSE /\ sockets' = [sockets EXCEPT ![client[t].stream].holder = NoThread]
            /\ ret' = [ret EXCEPT ![t] = Err("SslPeek")]
            /\ pc' = [pc EXCEPT ![t] = "idle"]
    /\ UNCHANGED <<client, op, line, ncalls>>
    /\ UNCHANGED restVars
    /\ UNCHANGED parseVars

\* raw_read: let peek = stream.peek(&mut peek_buffer).ok(); an error of the
\* peek is None and nothing returns between the two changes of mode
ReadPeek(t) ==
    /\ pc[t] = "peek"
    /\ pc' = [pc EXCEPT ![t] = IF PeekIsSome(sockets[client[t].stream])
                               THEN "peek_some" ELSE "peek_none"]
    /\ UNCHANGED <<sockets, ret>>
    /\ UNCHANGED <<client, op, line, ncalls>>
    /\ UNCHANGED restVars
    /\ UNCHANGED parseVars

\* raw_read: stream.set_nonblocking(false).map_err(|_| Error::SetBlocking)?,
\* then the test `blocking || peek.is_some()`
ReadSetBlocking(t) ==
    /\ pc[t] \in {"peek_some", "peek_none"}
    /\ LET s == client[t].stream
       IN \E ok \in BOOLEAN :
             IF ~ok
             THEN /\ sockets' = [sockets EXCEPT ![s].holder = NoThread,
                                                ![s].stuck = TRUE]
                  /\ ret' = [ret EXCEPT ![t] = Err("SetBlocking")]
                  /\ pc' = [pc EXCEPT ![t] = "idle"]
                  /\ UNCHANGED line
             ELSE IF op[t] = "recv_str" \/ pc[t] = "peek_some"
             THEN /\ sockets' = [sockets EXCEPT ![s].nonblocking = FALSE]
                  /\ pc' = [pc EXCEPT ![t] = "read_line"]
                  /\ line' = [line EXCEPT ![t] = <<>>]
                  /\ UNCHANGED ret
             ELSE /\ sockets' = [sockets EXCEPT ![s].nonblocking = FALSE,
                                                ![s].holder = NoThread]
                  /\ ret' = [ret EXCEPT ![t] = OkNone]
                  /\ pc' = [pc EXCEPT ![t] = "idle"]
                  /\ UNCHANGED line
    /\ UNCHANGED <<client, op, ncalls>>
    /\ UNCHANGED restVars
    /\ UNCHANGED parseVars

ModeNext ==
    \/ \E t \in Threads : LifeTryConnect(t)
    \/ \E t \in Threads, u \in Threads : LifeClone(t, u)
    \/ \E t \in Threads : LifeClose(t)
    \/ \E t \in Threads, o \in {"recv_str", "try_recv_str"} : ReadEnter(t, o)
    \/ \E t \in Threads : ReadSetNonBlocking(t)
    \/ \E t \in Threads : ReadPeek(t)
    \/ \E t \in Threads : ReadSetBlocking(t)
    \/ \E t \in Threads : LifeReadLine(t)
    \/ \E t \in Threads : LifeReadEof(t)
    \/ \E t \in Threads : LifeTrySendStr(t)
    \/ \E s \in 1..Len(sockets) : LifePeerWrite(s)
    \/ \E s \in 1..Len(sockets) : LifePeerClose(s)

SpecMode == LifeInit /\ [][ModeNext]_vars

(***************************************************************************)
(* Claims about Part X                                                     *)
(***************************************************************************)
\* C38: a socket on which no set_nonblocking(false) has failed is in
\* non-blocking mode only while a thread that holds its Mutex is inside
\* raw_read, between the two changes of mode; so it is in blocking mode
\* whenever its Mutex is free, during every line read and at every send
C38_NonBlockingOnlyUnderTheLock ==
    /\ [](\A s \in 1..Len(sockets) :
             (sockets[s].nonblocking /\ ~sockets[s].stuck)
                => /\ sockets[s].holder # NoThread
                   /\ pc[sockets[s].holder] \in {"peek", "peek_some", "peek_none"}
                   /\ op[sockets[s].holder] \in {"recv_str", "try_recv_str"})
    /\ [](\A t \in Threads :
             (pc[t] = "read_line" /\ ~sockets[client[t].stream].stuck)
                => ~sockets[client[t].stream].nonblocking)
    /\ [][\A t \in Threads :
             (/\ IsConnected(client[t])
              /\ ~sockets[client[t].stream].stuck
              /\ LifeTrySendStr(t))
                => ~sockets[client[t].stream].nonblocking]_vars

\* C38 witness: a try_recv_str of one clone has returned None, the mode
\* restored, and a read of the other clone is now between the two changes of
\* mode, on a socket on which no change of mode has failed
C38_Witness ==
    \E t \in Threads, u \in Threads :
        /\ t # u
        /\ op[t] = "try_recv_str" /\ ret[t] = OkNone /\ pc[t] = "idle"
        /\ pc[u] = "peek_none"
        /\ IsConnected(client[t]) /\ client[t].stream = client[u].stream
        /\ sockets[client[u].stream].nonblocking
        /\ ~sockets[client[u].stream].stuck

(***************************************************************************)
(* Part XI: a caller that classifies one line after the other against its  *)
(* index, with recv, try_recv, parse_str_response or try_parse.            *)
(***************************************************************************)
\* the lines classified: single objects, the arrays of at most one element
\* and a line that is not JSON
RecvLines ==
    {RawObject(o) : o \in BatchElems}
    \cup {RawArray(a) : a \in ArraysOf(1)}
    \cup {RawGarbage}

RecvCalls == {"recv", "try_recv", "parse_str_response", "try_parse"}

\* the ids of the responses in result x
ClassifiedIds(x) ==
    IF x.tag = "Ok" THEN {x.id}
    ELSE IF x.tag = "OkBatch" THEN {x.list[k].id : k \in 1..Len(x.list)}
    ELSE {}

\* what function f returns for line l and index idx: recv and try_recv hand
\* the line of recv_str / try_recv_str to parse_str_response
Classified(f, l, idx) ==
    IF f = "try_parse" THEN TryParse(l, idx) ELSE ParseStrResponse(l, idx)

\* a classification that takes the answered requests out of the index
ClassifyRemovesEntry(f) ==
    /\ Len(sentLines) < MaxCalls
    /\ \E l \in RecvLines :
          /\ sentLines' = Append(sentLines, l)
          /\ raw' = l
          /\ out' = Classified(f, l, index)
          /\ index' = [i \in DOMAIN index \ ClassifiedIds(Classified(f, l, index))
                          |-> index[i]]
    /\ call' = f
    /\ UNCHANGED <<conn, sock, lock, inflight, rcvbuf, wire, pc, op, arg, line,
                   ret, returned, sendlog, ncalls>>
    /\ UNCHANGED lifeVars

\* Client::recv / Client::try_recv once the line is read, parse_str_response
\* and Response::try_parse: the index is borrowed as &HashMap and only read
\* with index.get(&rr.id)
Classify(f) ==
    /\ Len(sentLines) < MaxCalls
    /\ \E l \in RecvLines :
          /\ sentLines' = Append(sentLines, l)
          /\ raw' = l
          /\ out' = Classified(f, l, index)
    /\ call' = f
    /\ UNCHANGED index
    /\ UNCHANGED <<conn, sock, lock, inflight, rcvbuf, wire, pc, op, arg, line,
                   ret, returned, sendlog, ncalls>>
    /\ UNCHANGED lifeVars

\* Client::try_recv when try_recv_str has returned None
TryRecvNothing ==
    /\ Len(sentLines) < MaxCalls
    /\ raw' = NoRaw
    /\ out' = [tag |-> "OkNone"]
    /\ call' = "try_recv"
    /\ UNCHANGED <<index, ioVars, lifeVars>>

RecvNext ==
    \/ \E f \in RecvCalls : Classify(f)
    \/ TryRecvNothing

SpecRecv == ParseInit /\ [][RecvNext]_vars

(***************************************************************************)
(* Claims about Part XI                                                    *)
(***************************************************************************)
\* C39: recv, try_recv, parse_str_response and try_parse leave the index as
\* it is: no key is added or removed and no request changed, so every line is
\* classified against the index the caller started with, however many
\* responses with the same id came before it
C39_IndexIsOnlyRead ==
    /\ [][index' = index]_vars
    /\ [][\A f \in RecvCalls :
             Classify(f) => out' = Classified(f, raw', index')]_vars

\* C39 witness: two responses with id 0 have been classified one after the
\* other, the second as the response to the request the index holds under 0
C39_Witness ==
    /\ Len(sentLines) = 2
    /\ sentLines[1] = RawObject(Plain(<<0>>, "bool"))
    /\ sentLines[2] = RawObject(Plain(<<0>>, "bool"))
    /\ index = (0 :> "ScriptHashUnsubscribe")
    /\ call = "recv"
    /\ out = OkBatch(<<OkResponse("SHUnsubscribe", 0)>>)

(***************************************************************************)
(* Further claims about Part III: Error::Mutex                             *)
(***************************************************************************)
\* C40: Error::Mutex comes from close only, and from a close of a connected
\* handle exactly when another thread holds the Mutex of its stream at that
\* moment; no thread panics under the MutexGuard, so the Mutex is never
\* poisoned and lock() never fails in try_send_str, recv_str, try_recv_str and
\* the timeout setters
C40_MutexErrorOnlyFromCloseUnderContention ==
    /\ [](\A t \in Threads : ret[t] = Err("Mutex") => op[t] = "close")
    /\ [][\A t \in Threads :
             LifeClose(t) /\ IsConnected(client[t])
                => (ret'[t] = Err("Mutex")
                       <=> sockets[client[t].stream].holder \notin {NoThread, t})]_vars
    /\ [](\A s \in 1..Len(sockets) : ~sockets[s].poisoned)
    /\ [](\A t \in Threads : pc[t] # "panicked")

\* C40 witness: a recv_str that found nothing to peek waits in read_line with
\* the Mutex, and the close of the other handle has returned Error::Mutex
C40_Witness ==
    \E t \in Threads, u \in Threads :
       /\ t # u
       /\ op[t] = "recv_str" /\ pc[t] = "read_line"
       /\ IsConnected(client[t])
       /\ sockets[client[t].stream].holder = t
       /\ sockets[client[t].stream].pending = <<>>
       /\ ~AtEof(sockets[client[t].stream])
       /\ op[u] = "close" /\ ret[u] = Err("Mutex")

====
